---- MODULE Spec2Model ----
(***************************************************************************)
(* Verification model of the Marathon site agent (the tenant-isolating     *)
(* proxy gateway, pkg/cmd/infra/siteagent/server.go) and of the Marathon   *)
(* deployer (the deployment convergence controller,                        *)
(* pkg/cmd/infra/deployer/marathon-deployer.go), with the proxy calls of   *)
(* the site client (pkg/client/sites.go), the strategies of the site       *)
(* registry (pkg/site/registry/site/strategy.go) and the listeners of      *)
(* ServeApi.  Each part has its own specification; the parts a             *)
(* specification leaves out stay idle.                                     *)
(*                                                                         *)
(* Strings that the code inspects (prefix tests, case folding, URL         *)
(* decoding, Atoi) are sequences of one-character strings; strings that    *)
(* the code only compares for equality (route keys, attribute literals,    *)
(* operation names) are TLA+ strings.                                      *)
(***************************************************************************)
EXTENDS Integers, Sequences, FiniteSets, TLC

VARIABLES
    gwPc,           \* gateway: "idle" | "new" | "exited" | "received" |
                    \*          "responded"
    gwBackend,      \* gateway: s.backend, "nil" or "client"
    gwReq,          \* gateway: the inbound request (method, path, query)
    gwParaForce,    \* gateway: value of the optional "force" query parameter
    gwBody,         \* gateway: the request body the handler read
    gwDeployments,  \* gateway: the list MarathonClient.Deployments() returned
    gwRoute,        \* gateway: index of the route the router selected, 0 if none
    gwVars,         \* gateway: the vars map makeHttpHandler handed to the api
    gwCalls,        \* gateway: the scheduler-client calls of this request
    gwResp          \* gateway: the writes to the http.ResponseWriter

gwState == <<gwPc, gwBackend, gwReq, gwRoute, gwParaForce, gwBody, gwDeployments,
             gwVars, gwCalls, gwResp>>

VARIABLES
    dPc,            \* deployer: "idle" | "start" | "waitForDeployment" |
                    \*           "waitForApplication" | "done"
    dTo,            \* deployer: the replication controller d.to as read
    dConfig,        \* deployer: the deployment config decoded from d.to
    d,              \* deployer: the fields of the Deployment struct
    dSiblings,      \* deployer: the sorted controller list reconcile walked
    dAction,        \* deployer: the action execute decided on
    dForce,         \* deployer: the force argument of deploy, <<>> if not run
    dCalls,         \* deployer: the calls to the sites client, in order
    dDeploy,        \* deployer: the deployment id the convergence wait got
    dCaller,        \* deployer: the function that started the convergence wait
    dNow,           \* deployer: seconds since the run started
    dWaits,         \* deployer: the waits performed, in order
    dErr            \* deployer: what execute returned, "nil" for success

dState == <<dPc, dTo, dConfig, d, dSiblings, dAction, dForce, dCalls, dDeploy,
            dCaller, dNow, dWaits, dErr>>

VARIABLES
    rPc,            \* two runs: position of each controller run,
                    \*           "idle" | "start" | "fetched" | "submitted"
    rTo,            \* two runs: the replication controller of each run
    rActualApp,     \* two runs: d.actualApp of each run, as fetched
    rCalls,         \* two runs: the calls to the gateway, in order, by run
    rApp            \* two runs: the application as the scheduler holds it

rState == <<rPc, rTo, rActualApp, rCalls, rApp>>

VARIABLES
    sPc,            \* site registry: "idle" | "start" | "prepared"
    sCall,          \* site registry: the strategy function the store calls,
                    \*                with the object the caller supplied
    sObj,           \* site registry: the site object obj points to
    sOld            \* site registry: the stored site object old points to

sState == <<sPc, sCall, sObj, sOld>>

VARIABLES
    cPc,            \* site client: "idle" | "called" | "returned" | "panic"
    cCall,          \* site client: the proxy call made and the Result of Do()
    cRet            \* site client: what the proxy call returned

cState == <<cPc, cCall, cRet>>

VARIABLES
    aPc,            \* ServeApi: "idle" | "starting" | "receiving" | "returned"
    aProtoAddrs,    \* ServeApi: per address, whether newServer succeeds
    aServers,       \* ServeApi: the goroutines started, one per s.servers
    aChErrors,      \* ServeApi: the values buffered in chErrors
    aReceived,      \* ServeApi: the number of values received from chErrors
    aRet            \* ServeApi: what ServeApi returned, <<>> before it does

aState == <<aPc, aProtoAddrs, aServers, aChErrors, aReceived, aRet>>

vars == <<gwState, dState, rState, sState, cState, aState>>

(***************************************************************************)
(* Strings                                                                 *)
(***************************************************************************)

\* strings.HasPrefix
HasPrefix(s, p) == /\ Len(p) <= Len(s)
                   /\ SubSeq(s, 1, Len(p)) = p

\* unicode simple case folding, on the letters of the model's alphabet
ToLower(c) == IF c = "A" THEN "a"
              ELSE IF c = "B" THEN "b"
              ELSE IF c = "X" THEN "x"
              ELSE IF c = "Y" THEN "y"
              ELSE c

\* strings.EqualFold
EqualFold(s, t) == /\ Len(s) = Len(t)
                   /\ \A i \in 1..Len(s) : ToLower(s[i]) = ToLower(t[i])

\* the byte a %XX escape stands for (the escapes of the model's alphabet)
UnHex(h, l) == IF h = "2" /\ l = "F" THEN "/"
               ELSE IF h = "4" /\ l = "1" THEN "A"
               ELSE IF h = "2" /\ l = "5" THEN "%"
               ELSE "?"

\* url.QueryUnescape: whether the escapes of s are well formed
RECURSIVE UnescapeOk(_)
UnescapeOk(s) ==
    IF s = <<>> THEN TRUE
    ELSE IF Head(s) = "%"
         THEN /\ Len(s) >= 3
              /\ \A i \in {2, 3} :
                    s[i] \in {"0", "1", "2", "3", "4", "5", "6", "7", "8", "9",
                              "A", "B", "C", "D", "E", "F"}
              /\ UnescapeOk(SubSeq(s, 4, Len(s)))
         ELSE UnescapeOk(Tail(s))

\* url.QueryUnescape: the decoded string ("+" is a space, %XX a byte)
RECURSIVE Unescape(_)
Unescape(s) ==
    IF s = <<>> THEN <<>>
    ELSE IF Head(s) = "%"
         THEN <<UnHex(s[2], s[3])>> \o Unescape(SubSeq(s, 4, Len(s)))
         ELSE IF Head(s) = "+"
              THEN <<" ">> \o Unescape(Tail(s))
              ELSE <<Head(s)>> \o Unescape(Tail(s))

IsDigits(s) == /\ s # <<>>
               /\ \A i \in 1..Len(s) : s[i] \in {"0", "1", "2", "3", "4",
                                                 "5", "6", "7", "8", "9"}

RECURSIVE DigitsVal(_)
DigitsVal(s) == IF s = <<>> THEN 0
                ELSE LET c == s[Len(s)]
                     IN  10 * DigitsVal(SubSeq(s, 1, Len(s) - 1))
                         + (CASE c = "0" -> 0 [] c = "1" -> 1 [] c = "2" -> 2
                              [] c = "3" -> 3 [] c = "4" -> 4 [] c = "5" -> 5
                              [] c = "6" -> 6 [] c = "7" -> 7 [] c = "8" -> 8
                              [] c = "9" -> 9 [] OTHER -> 0)

\* strconv.Atoi with its error dropped (replicasNum, _ := strconv.Atoi(..)):
\* the number, or 0 when the text is no integer
Atoi(s) == IF IsDigits(s) THEN DigitsVal(s)
           ELSE IF Len(s) >= 2 /\ Head(s) \in {"-", "+"} /\ IsDigits(Tail(s))
                THEN (IF Head(s) = "-" THEN 0 - DigitsVal(Tail(s))
                      ELSE DigitsVal(Tail(s)))
                ELSE 0

Opt(S) == {<<>>} \cup {<<v>> : v \in S}

(***************************************************************************)
(* pkg/site/siteagent: names of the query keys and of the mux variables    *)
(***************************************************************************)

\* the constants of package sconst the gateway and its client use
sconst ==
    [Sites |-> "sites",
     Projects |-> "projects",
     Applications |-> "applications",
     Versions |-> "versions",
     Jobs |-> "jobs",
     Deployments |-> "deployments",
     Attributes |-> "attributes",
     AttrReplicas |-> "replicas",
     SiteId |-> "site_id",
     ProjId |-> "proj_id",
     AppId |-> "app_id",
     VerId |-> "ver_id",
     JobId |-> "job_id",
     DeploymentId |-> "dp_id",
     QuerySiteId |-> "{site_id}",
     QueryProjId |-> "{proj_id}",
     QueryAppId |-> "{app_id}",
     QueryVerId |-> "{ver_id}",
     QueryJobId |-> "{job_id}",
     QueryDeploymentId |-> "{dp_id}",
     QueryReplicas |-> "{replicas}"]

\* the name inside the braces of a mux query template
VarOf(pat) == CASE pat = sconst.QuerySiteId -> sconst.SiteId
                [] pat = sconst.QueryProjId -> sconst.ProjId
                [] pat = sconst.QueryAppId -> sconst.AppId
                [] pat = sconst.QueryVerId -> sconst.VerId
                [] pat = sconst.QueryJobId -> sconst.JobId
                [] pat = sconst.QueryDeploymentId -> sconst.DeploymentId
                [] pat = sconst.QueryReplicas -> sconst.AttrReplicas
                [] OTHER -> "literal"

IsVar(pat) == VarOf(pat) # "literal"

VarNames ==
    {sconst.SiteId, sconst.ProjId, sconst.AppId, sconst.VerId, sconst.JobId,
     sconst.DeploymentId, sconst.AttrReplicas}

(***************************************************************************)
(* createRouter: the route table, in registration order                    *)
(***************************************************************************)

Route(m, p, q, api) == [method |-> m, path |-> p, queries |-> q, api |-> api]

Routes == <<
    Route("GET", "/ping", <<>>, "ping"),
    Route("GET", "/proxy",
          <<sconst.Sites, sconst.QuerySiteId, sconst.Projects, sconst.QueryProjId,
            sconst.Applications, sconst.QueryAppId, sconst.Attributes, "versions">>,
          "getVersionList"),
    Route("GET", "/proxy",
          <<sconst.Sites, sconst.QuerySiteId, sconst.Projects, sconst.QueryProjId,
            sconst.Applications, sconst.QueryAppId, sconst.Versions, sconst.QueryVerId>>,
          "getVersion"),
    Route("GET", "/proxy",
          <<sconst.Sites, sconst.QuerySiteId, sconst.Projects, sconst.QueryProjId,
            sconst.Applications, sconst.QueryAppId, sconst.Attributes, "tasks">>,
          "getTaskList"),
    Route("GET", "/proxy",
          <<sconst.Sites, sconst.QuerySiteId, sconst.Projects, sconst.QueryProjId,
            sconst.Applications, sconst.QueryAppId>>,
          "getApplication"),
    Route("GET", "/proxy",
          <<sconst.Sites, sconst.QuerySiteId, sconst.Projects, sconst.QueryProjId,
            sconst.Attributes, "applications">>,
          "getProjectApplicationList"),
    Route("GET", "/proxy",
          <<sconst.Sites, sconst.QuerySiteId, sconst.Attributes, "applications">>,
          "getApplicationList"),
    Route("GET", "/proxy",
          <<sconst.Sites, sconst.QuerySiteId, sconst.Projects, sconst.QueryProjId, sconst.Jobs, sconst.QueryJobId>>,
          "getJob"),
    Route("GET", "/proxy",
          <<sconst.Sites, sconst.QuerySiteId, sconst.Projects, sconst.QueryProjId, sconst.Attributes, "jobs">>,
          "getProjectJobList"),
    Route("GET", "/proxy",
          <<sconst.Sites, sconst.QuerySiteId, sconst.Projects, sconst.QueryProjId,
            sconst.Deployments, sconst.QueryDeploymentId>>,
          "getDeployment"),
    Route("GET", "/proxy",
          <<sconst.Sites, sconst.QuerySiteId, sconst.Projects, sconst.QueryProjId,
            sconst.Attributes, "deployments">>,
          "getProjectDeploymentList"),
    Route("GET", "/proxy",
          <<sconst.Sites, sconst.QuerySiteId, sconst.Attributes, "projects">>,
          "getProjectList"),
    Route("GET", "/proxy",
          <<sconst.Sites, sconst.QuerySiteId, sconst.Projects, sconst.QueryProjId>>,
          "getProject"),
    Route("GET", "/proxy",
          <<sconst.Sites, sconst.QuerySiteId, sconst.Projects, sconst.QueryProjId, sconst.Attributes, "quota">>,
          "getProjectQuota"),
    Route("GET", "/proxy",
          <<sconst.Sites, sconst.QuerySiteId, sconst.Attributes, "info">>,
          "getSiteInfo"),
    Route("GET", "/proxy",
          <<sconst.Sites, sconst.QuerySiteId, sconst.Attributes, "leader">>,
          "getSiteLeader"),
    Route("GET", "/proxy",
          <<sconst.Sites, sconst.QuerySiteId, sconst.Attributes, "list">>,
          "getSiteList"),
    Route("PUT", "/proxy",
          <<sconst.Sites, sconst.QuerySiteId, sconst.Projects, sconst.QueryProjId, sconst.Attributes, "quota">>,
          "putProjectQuota"),
    Route("PUT", "/proxy",
          <<sconst.Sites, sconst.QuerySiteId, sconst.Projects, sconst.QueryProjId,
            sconst.Applications, sconst.QueryAppId, sconst.Attributes, "restart">>,
          "putApplicationRestart"),
    Route("PUT", "/proxy",
          <<sconst.Sites, sconst.QuerySiteId, sconst.Projects, sconst.QueryProjId,
            sconst.Applications, sconst.QueryAppId, sconst.AttrReplicas, sconst.QueryReplicas>>,
          "putApplicationScale"),
    Route("PUT", "/proxy",
          <<sconst.Sites, sconst.QuerySiteId, sconst.Projects, sconst.QueryProjId,
            sconst.Applications, sconst.QueryAppId>>,
          "putApplication"),
    Route("POST", "/proxy",
          <<sconst.Sites, sconst.QuerySiteId, sconst.Projects, sconst.QueryProjId,
            sconst.Attributes, "applications">>,
          "postApplication"),
    Route("POST", "/proxy",
          <<sconst.Sites, sconst.QuerySiteId, sconst.Projects, sconst.QueryProjId, sconst.Attributes, "jobs">>,
          "postJob"),
    Route("DELETE", "/proxy",
          <<sconst.Sites, sconst.QuerySiteId, sconst.Projects, sconst.QueryProjId,
            sconst.Applications, sconst.QueryAppId, sconst.Attributes, "tasks">>,
          "deleteTasks"),
    Route("DELETE", "/proxy",
          <<sconst.Sites, sconst.QuerySiteId, sconst.Projects, sconst.QueryProjId,
            sconst.Applications, sconst.QueryAppId>>,
          "deleteApplication"),
    Route("DELETE", "/proxy",
          <<sconst.Sites, sconst.QuerySiteId, sconst.Projects, sconst.QueryProjId, sconst.Jobs, sconst.QueryJobId>>,
          "deleteJob"),
    Route("DELETE", "/proxy",
          <<sconst.Sites, sconst.QuerySiteId, sconst.Projects, sconst.QueryProjId,
            sconst.Deployments, sconst.QueryDeploymentId>>,
          "deleteDeployment"),
    Route("DELETE", "/proxy",
          <<sconst.Sites, sconst.QuerySiteId, sconst.Projects, sconst.QueryProjId>>,
          "deleteProject")
>>

\* the (key, template) pairs of a Queries(...) argument list
Pairs(q) == {<<q[2 * i - 1], q[2 * i]>> : i \in 1..(Len(q) \div 2)}

\* mux: a route matches when method and path agree and every required
\* query pair is present (a {template} accepts any value)
Matches(req, rt) ==
    /\ rt.method = req.method
    /\ rt.path = req.path
    /\ \A p \in Pairs(rt.queries) :
          /\ req.query[p[1]] # <<>>
          /\ (IsVar(p[2]) \/ req.query[p[1]][1] = p[2])

\* mux: routes are tried in registration order, the first match serves;
\* 0 when no route matches
Dispatch(req) ==
    LET idx == {i \in 1..Len(Routes) : Matches(req, Routes[i])}
    IN  IF idx = {} THEN 0
        ELSE CHOOSE i \in idx : \A j \in idx : i <= j

(***************************************************************************)
(* The gateway's configuration and the requests of the model               *)
(***************************************************************************)

\* ServerConfig.SiteName, the one site this agent serves
SiteName == <<"w">>

\* bounds of the model
MaxTasks == 2
MaxAffected == 2

\* ids of the scheduler's deployments
DpVals == {<<"d">>, <<"e">>}

NoQuery == [sites |-> <<>>, projects |-> <<>>, applications |-> <<>>,
            versions |-> <<>>, jobs |-> <<>>, deployments |-> <<>>,
            attributes |-> <<>>, replicas |-> <<>>]

\* the requests: every method on /ping and on /proxy. The query of a
\* request has each key absent or present; the sites key with the
\* configured site, another site, or a value whose escape is malformed;
\* the attributes key with each literal the route table names; the
\* replicas key with a number, a word, or a malformed escape
Requests ==
    [method : {"GET", "PUT", "POST", "DELETE"},
     path : {"/proxy"},
     query : [sites : Opt({<<"w">>, <<"e">>, <<"%">>}),
              projects : Opt({<<"a">>, <<"b">>}),
              applications : Opt({<<"x">>, <<"y">>}),
              versions : Opt({<<"v">>}),
              jobs : Opt({<<"j">>}),
              deployments : Opt(DpVals),
              attributes : Opt({"versions", "tasks", "applications", "jobs",
                                "deployments", "projects", "quota", "info",
                                "leader", "list", "restart"}),
              replicas : Opt({<<"2">>, <<"z">>, <<"%">>})]]
    \cup [method : {"GET", "PUT", "POST", "DELETE"},
          path : {"/ping"}, query : {NoQuery}]

\* values of the optional force parameter
ForceVals == {<<>>, <<"true">>}

NoBody == [kind |-> "none"]
BadBody == [kind |-> "bad"]
\* the bodies that decode to an application, with the ids they may carry
AppBodies ==
    [kind : {"app"},
     ID : {<<"/", "a", "/", "x">>, <<"/", "A", "/", "x">>,
           <<"/", "a", "/", "X">>, <<"/", "a", "/", "y">>,
           <<"/", "b", "/", "x">>, <<"a", "/", "x">>,
           <<"/", "a", "x">>, <<>>}]

SeqsUpTo(S, n) == UNION {[1..k -> S] : k \in 0..n}

\* the kill-tasks bodies, with the task ids they may carry
TaskBodies ==
    [kind : {"ids"},
     IDs : SeqsUpTo({<<"a", "_", "x", ".", "1">>, <<"a", "_", "x", ".", "2">>,
                     <<"b", "_", "x", ".", "1">>,
                     <<"a", "_", "x", "y", ".", "1">>}, MaxTasks)]

\* what MarathonClient.Deployments() may return: no deployment, or one
\* that affects up to MaxAffected applications of two projects
DeploymentLists ==
    {<<>>}
    \cup {<<dp>> : dp \in
             [ID : DpVals,
              AffectedApps : SeqsUpTo({<<"/", "a", "/", "x">>,
                                       <<"/", "b", "/", "x">>}, MaxAffected)]}

\* outcome of one scheduler-client call: a result, an APIError with
\* ErrCodeNotFound, or any other error
ClientResults == {"ok", "notfound", "error"}

(***************************************************************************)
(* Responses and scheduler-client calls                                    *)
(***************************************************************************)

Write(code, body, val) == [code |-> code, body |-> body, val |-> val]

\* writeJSON(w, http.StatusOK, v)
Json200(val) == Write(200, "json", val)
\* w.WriteHeader(http.StatusOK)
Empty200 == Write(200, "empty", <<>>)
\* w.WriteHeader(http.StatusNotFound)
Empty404 == Write(404, "empty", <<>>)
\* handleError: writeText(w, http.StatusNotAcceptable, ..)
handleError == Write(406, "text", <<>>)
\* httpError for an error text that holds none of its keywords
httpError == Write(500, "text", <<>>)
\* a nil dereference: net/http recovers the panic and drops the connection
Panic == Write(0, "panic", <<>>)

\* a call of the scheduler client; res is what it returned: "ok" for a
\* result without error, "notfound" for an APIError with ErrCodeNotFound,
\* "error" for any other error, the result being nil with either error
Call(op, id, arg, ids, n, force) ==
    [op |-> op, id |-> id, arg |-> arg, ids |-> ids, n |-> n, force |-> force,
     res |-> "ok"]

CallId(op, id) == Call(op, id, <<>>, <<>>, 0, FALSE)
CallOp(op) == Call(op, <<>>, <<>>, <<>>, 0, FALSE)

(***************************************************************************)
(* makeHttpHandler                                                         *)
(***************************************************************************)

\* the raw value mux extracted for variable n of route rt, <<>> if none
RawVar(req, rt, n) ==
    LET ps == {p \in Pairs(rt.queries) : IsVar(p[2]) /\ VarOf(p[2]) = n}
    IN  IF ps = {} THEN <<>>
        ELSE req.query[(CHOOSE p \in ps : TRUE)[1]][1]

\* the variables whose value fails url.QueryUnescape
BadVars(req, rt) == {n \in VarNames : ~UnescapeOk(RawVar(req, rt, n))}

\* the vars map handed to the api function: every variable that decodes;
\* a variable that does not decode is left out (and reads as "")
makeVars(req, rt) ==
    [n \in VarNames |->
        IF n \in BadVars(req, rt) THEN <<>> ELSE Unescape(RawVar(req, rt, n))]

\* one httpError write per variable that fails to decode; the api function
\* is called afterwards all the same
decodeWrites(req, rt) ==
    [i \in 1..Cardinality(BadVars(req, rt)) |-> httpError]

TheRoute == Routes[gwRoute]

\* the api function that serves the request, "none" if no route matched
Handler == IF gwRoute = 0 THEN "none" ELSE TheRoute.api

\* the router selected api for the pending request
Serve(api) == /\ gwPc = "received"
              /\ Handler = api

\* the api function ends after the scheduler-client calls it made, of
\* which the last returned r; its first use of s.backend.MarathonClient is
\* a nil dereference when New left s.backend nil
Finish(r, calls, writes) ==
    /\ gwPc' = "responded"
    /\ gwVars' = makeVars(gwReq, TheRoute)
    /\ gwCalls' = IF gwBackend = "nil" \/ calls = <<>> THEN <<>>
                  ELSE [calls EXCEPT ![Len(calls)].res = r]
    /\ gwResp' = decodeWrites(gwReq, TheRoute) \o
                    (IF gwBackend = "nil" /\ calls # <<>> THEN <<Panic>>
                     ELSE writes)
    /\ UNCHANGED <<gwBackend, gwReq, gwRoute, dState, rState, sState, cState, aState>>

FinishPlain(r, calls, writes) ==
    /\ Finish(r, calls, writes)
    /\ UNCHANGED <<gwParaForce, gwBody, gwDeployments>>

\* if siteId != s.cfg.SiteName
siteMismatch(v) == v[sconst.SiteId] # SiteName

\* "/" + projId + "/" + appId
fullAppName(v) == <<"/">> \o v[sconst.ProjId] \o <<"/">> \o v[sconst.AppId]

\* "/" + projId + "/"
projIdPrefix(v) == <<"/">> \o v[sconst.ProjId] \o <<"/">>

\* the answer of a getter that maps ErrCodeNotFound to 404
getAnswer(r) == IF r = "ok" THEN Json200(<<>>)
                ELSE IF r = "notfound" THEN Empty404
                ELSE handleError

\* the answer of a handler that maps every error to handleError
plainAnswer(r) == IF r = "ok" THEN Json200(<<>>) ELSE handleError

(***************************************************************************)
(* The api functions of the gateway, one action each                       *)
(***************************************************************************)

ping ==
    /\ Serve("ping")
    /\ FinishPlain("none", <<>>, <<Empty200>>)

\* getSiteList, getProjectQuota, getProjectJobList, getJob, putProjectQuota,
\* postJob, deleteJob: handleError(w, .., "NOT implemented")
notImplemented ==
    /\ gwPc = "received"
    /\ Handler \in {"getSiteList", "getProjectQuota", "getProjectJobList",
                    "getJob", "putProjectQuota", "postJob", "deleteJob"}
    /\ FinishPlain("none", <<>>, <<handleError>>)

\* mux's NotFoundHandler: no registered route matches
noRoute ==
    /\ gwPc = "received"
    /\ gwRoute = 0
    /\ gwPc' = "responded"
    /\ gwResp' = <<Write(404, "text", <<>>)>>
    /\ UNCHANGED <<gwReq, gwRoute, gwParaForce, gwBody, gwDeployments,
                   gwVars, gwCalls, gwBackend, dState, rState, sState,
                   cState, aState>>

getSiteInfo ==
    /\ Serve("getSiteInfo")
    /\ \E r \in ClientResults :
          FinishPlain(r, <<CallOp("Info")>>, <<plainAnswer(r)>>)

getSiteLeader ==
    /\ Serve("getSiteLeader")
    /\ \E r \in ClientResults :
          FinishPlain(r, <<CallOp("Leader")>>, <<plainAnswer(r)>>)

getProjectList ==
    /\ Serve("getProjectList")
    /\ LET v == makeVars(gwReq, TheRoute)
       IN  IF siteMismatch(v)
           THEN FinishPlain("none", <<>>, <<handleError>>)
           ELSE \E r \in ClientResults :
                   FinishPlain(r, <<CallOp("Groups")>>, <<plainAnswer(r)>>)

getProject ==
    /\ Serve("getProject")
    /\ LET v == makeVars(gwReq, TheRoute)
       IN  IF siteMismatch(v)
           THEN FinishPlain("none", <<>>, <<handleError>>)
           ELSE \E r \in ClientResults :
                   FinishPlain(r, <<CallId("Group", v[sconst.ProjId])>>, <<getAnswer(r)>>)

\* project.Apps is read before err is looked at: a nil project panics
getProjectApplicationList ==
    /\ Serve("getProjectApplicationList")
    /\ LET v == makeVars(gwReq, TheRoute)
       IN  IF siteMismatch(v)
           THEN FinishPlain("none", <<>>, <<handleError>>)
           ELSE \E r \in ClientResults :
                   FinishPlain(r, <<CallId("Group", v[sconst.ProjId])>>,
                               <<IF r = "ok" THEN Json200(<<>>) ELSE Panic>>)

getApplicationList ==
    /\ Serve("getApplicationList")
    /\ LET v == makeVars(gwReq, TheRoute)
       IN  IF siteMismatch(v)
           THEN FinishPlain("none", <<>>, <<handleError>>)
           ELSE \E r \in ClientResults :
                   FinishPlain(r, <<CallOp("Applications")>>, <<plainAnswer(r)>>)

getApplication ==
    /\ Serve("getApplication")
    /\ LET v == makeVars(gwReq, TheRoute)
       IN  IF siteMismatch(v)
           THEN FinishPlain("none", <<>>, <<handleError>>)
           ELSE \E r \in ClientResults :
                   FinishPlain(r, <<CallId("Application", fullAppName(v))>>,
                               <<getAnswer(r)>>)

getVersion ==
    /\ Serve("getVersion")
    /\ LET v == makeVars(gwReq, TheRoute)
       IN  IF siteMismatch(v)
           THEN FinishPlain("none", <<>>, <<handleError>>)
           ELSE \E r \in ClientResults :
                   FinishPlain(r, <<Call("ApplicationByVersion", fullAppName(v),
                                      v[sconst.VerId], <<>>, 0, FALSE)>>,
                               <<getAnswer(r)>>)

getVersionList ==
    /\ Serve("getVersionList")
    /\ LET v == makeVars(gwReq, TheRoute)
       IN  IF siteMismatch(v)
           THEN FinishPlain("none", <<>>, <<handleError>>)
           ELSE \E r \in ClientResults :
                   FinishPlain(r, <<CallId("ApplicationVersions", fullAppName(v))>>,
                               <<plainAnswer(r)>>)

getTaskList ==
    /\ Serve("getTaskList")
    /\ LET v == makeVars(gwReq, TheRoute)
       IN  IF siteMismatch(v)
           THEN FinishPlain("none", <<>>, <<handleError>>)
           ELSE \E r \in ClientResults :
                   FinishPlain(r, <<CallId("Tasks", fullAppName(v))>>,
                               <<plainAnswer(r)>>)

\* MarathonClient.Deployments() fails: the handler answers with the error
DeploymentsFails ==
    /\ Finish("error", <<CallOp("Deployments")>>, <<handleError>>)
    /\ UNCHANGED <<gwParaForce, gwBody, gwDeployments>>

\* MarathonClient.Deployments() returns the list dps
DeploymentsReturn(dps) ==
    /\ gwDeployments' = dps
    /\ UNCHANGED <<gwParaForce, gwBody>>

\* isAppsDeployment: every affected application carries the project prefix
allAffectedInProject(dp, prefix) ==
    \A i \in 1..Len(dp.AffectedApps) : HasPrefix(dp.AffectedApps[i], prefix)

\* the inner loop of getDeployment and deleteDeployment: the first affected
\* application that carries the project prefix admits the deployment
someAffectedInProject(dp, prefix) ==
    \E i \in 1..Len(dp.AffectedApps) : HasPrefix(dp.AffectedApps[i], prefix)

\* the result list of getProjectDeploymentList
RECURSIVE projectDeployments(_, _)
projectDeployments(dps, prefix) ==
    IF dps = <<>> THEN <<>>
    ELSE (IF allAffectedInProject(Head(dps), prefix) THEN <<Head(dps)>> ELSE <<>>)
         \o projectDeployments(Tail(dps), prefix)

getProjectDeploymentList ==
    /\ Serve("getProjectDeploymentList")
    /\ LET v == makeVars(gwReq, TheRoute)
           list(dps) ==
               Finish("ok", <<CallOp("Deployments")>>,
                      <<Json200(projectDeployments(dps, projIdPrefix(v)))>>)
       IN  IF siteMismatch(v)
           THEN FinishPlain("none", <<>>, <<handleError>>)
           ELSE \/ DeploymentsFails
                \/ \E dps \in DeploymentLists :
                      DeploymentsReturn(dps) /\ list(dps)

\* the deployments of the list with the requested id that the inner loop
\* admits; the handler acts on the first of them
qualified(dps, dpId, prefix) ==
    {i \in 1..Len(dps) : /\ dps[i].ID = dpId
                         /\ someAffectedInProject(dps[i], prefix)}

getDeployment ==
    /\ Serve("getDeployment")
    /\ LET v == makeVars(gwReq, TheRoute)
           find(dps) ==
               LET q == qualified(dps, v[sconst.DeploymentId], projIdPrefix(v))
               IN  IF q # {}
                   THEN Finish("ok", <<CallOp("Deployments")>>,
                               <<Json200(<<dps[CHOOSE i \in q : \A j \in q : i <= j]>>)>>)
                   ELSE Finish("ok", <<CallOp("Deployments")>>, <<Empty404>>)
       IN  IF siteMismatch(v)
           THEN FinishPlain("none", <<>>, <<handleError>>)
           ELSE \/ DeploymentsFails
                \/ \E dps \in DeploymentLists :
                      DeploymentsReturn(dps) /\ find(dps)

deleteDeployment ==
    /\ Serve("deleteDeployment")
    /\ LET v == makeVars(gwReq, TheRoute)
           del == Call("DeleteDeployment", v[sconst.DeploymentId], <<>>, <<>>, 0, TRUE)
           find(dps) ==
               IF qualified(dps, v[sconst.DeploymentId], projIdPrefix(v)) # {}
               THEN \E r \in ClientResults :
                       Finish(r, <<CallOp("Deployments"), del>>, <<plainAnswer(r)>>)
               ELSE Finish("ok", <<CallOp("Deployments")>>, <<Empty200>>)
       IN  IF siteMismatch(v)
           THEN FinishPlain("none", <<>>, <<handleError>>)
           ELSE \/ DeploymentsFails
                \/ \E dps \in DeploymentLists :
                      DeploymentsReturn(dps) /\ find(dps)

\* paraForce == "true"
forceOf(para) == para = <<"true">>

\* !strings.EqualFold(app.ID, fullAppName) rejects the update
updateAdmits(appID, v) == EqualFold(appID, fullAppName(v))

putApplication ==
    /\ Serve("putApplication")
    /\ LET v == makeVars(gwReq, TheRoute)
       IN  IF siteMismatch(v)
           THEN FinishPlain("none", <<>>, <<handleError>>)
           ELSE \E para \in ForceVals, body \in AppBodies \cup {BadBody} :
                   /\ gwParaForce' = para
                   /\ gwBody' = body
                   /\ UNCHANGED gwDeployments
                   /\ IF body.kind = "bad"
                      THEN Finish("none", <<>>, <<handleError>>)
                      ELSE IF ~updateAdmits(body.ID, v)
                      THEN Finish("none", <<>>, <<handleError>>)
                      ELSE \E r \in ClientResults :
                              Finish(r, <<Call("UpdateApplication", body.ID, <<>>,
                                            <<>>, 0, forceOf(para))>>,
                                     <<plainAnswer(r)>>)

putApplicationRestart ==
    /\ Serve("putApplicationRestart")
    /\ LET v == makeVars(gwReq, TheRoute)
       IN  IF siteMismatch(v)
           THEN FinishPlain("none", <<>>, <<handleError>>)
           ELSE \E para \in ForceVals, r \in ClientResults :
                   /\ gwParaForce' = para
                   /\ UNCHANGED <<gwBody, gwDeployments>>
                   /\ Finish(r, <<Call("RestartApplication", fullAppName(v), <<>>,
                                    <<>>, 0, forceOf(para))>>,
                             <<plainAnswer(r)>>)

putApplicationScale ==
    /\ Serve("putApplicationScale")
    /\ LET v == makeVars(gwReq, TheRoute)
       IN  IF siteMismatch(v)
           THEN FinishPlain("none", <<>>, <<handleError>>)
           ELSE \E para \in ForceVals, r \in ClientResults :
                   /\ gwParaForce' = para
                   /\ UNCHANGED <<gwBody, gwDeployments>>
                   /\ Finish(r, <<Call("ScaleApplicationInstances", fullAppName(v),
                                    <<>>, <<>>, Atoi(v[sconst.AttrReplicas]),
                                    forceOf(para))>>,
                             <<plainAnswer(r)>>)

\* !strings.HasPrefix(app.ID, fullProjName) rejects the creation
createAdmits(appID, v) == HasPrefix(appID, projIdPrefix(v))

postApplication ==
    /\ Serve("postApplication")
    /\ LET v == makeVars(gwReq, TheRoute)
       IN  IF siteMismatch(v)
           THEN FinishPlain("none", <<>>, <<handleError>>)
           ELSE \E body \in AppBodies \cup {BadBody} :
                   /\ gwBody' = body
                   /\ UNCHANGED <<gwParaForce, gwDeployments>>
                   /\ IF body.kind = "bad"
                      THEN Finish("none", <<>>, <<handleError>>)
                      ELSE IF ~createAdmits(body.ID, v)
                      THEN Finish("none", <<>>, <<handleError>>)
                      ELSE \E r \in ClientResults :
                              Finish(r, <<CallId("CreateApplication", body.ID)>>,
                                     <<plainAnswer(r)>>)

deleteApplication ==
    /\ Serve("deleteApplication")
    /\ LET v == makeVars(gwReq, TheRoute)
       IN  IF siteMismatch(v)
           THEN FinishPlain("none", <<>>, <<handleError>>)
           ELSE \E r \in ClientResults :
                   FinishPlain(r, <<CallId("DeleteApplication", fullAppName(v))>>,
                               <<plainAnswer(r)>>)

deleteProject ==
    /\ Serve("deleteProject")
    /\ LET v == makeVars(gwReq, TheRoute)
       IN  IF siteMismatch(v)
           THEN FinishPlain("none", <<>>, <<handleError>>)
           ELSE \E r \in ClientResults :
                   FinishPlain(r, <<CallId("DeleteGroup", <<"/">> \o v[sconst.ProjId])>>,
                               <<plainAnswer(r)>>)

\* projId + "_" + appId + "."
safeAppId(v) == v[sconst.ProjId] \o <<"_">> \o v[sconst.AppId] \o <<".">>

\* a loop over taskIds that stops at the first task of the application
tasksBelongAny(taskIds, prefix) ==
    \/ taskIds = <<>>
    \/ \E i \in 1..Len(taskIds) : HasPrefix(taskIds[i], prefix)

\* the loop over taskIds finds no task outside the application
tasksBelong(taskIds, prefix) ==
    \A i \in 1..Len(taskIds) : HasPrefix(taskIds[i], prefix)

deleteTasks ==
    /\ Serve("deleteTasks")
    /\ LET v == makeVars(gwReq, TheRoute)
       IN  IF siteMismatch(v)
           THEN FinishPlain("none", <<>>, <<handleError>>)
           ELSE \E para \in ForceVals, body \in TaskBodies \cup {BadBody} :
                   /\ gwParaForce' = para
                   /\ gwBody' = body
                   /\ UNCHANGED gwDeployments
                   /\ IF body.kind = "bad"
                      THEN Finish("none", <<>>, <<handleError>>)
                      ELSE IF ~tasksBelong(body.IDs, safeAppId(v))
                      THEN Finish("none", <<>>, <<handleError>>)
                      ELSE \E r \in ClientResults :
                              Finish(r, <<Call("KillTasks", <<>>, <<>>, body.IDs,
                                            0, forceOf(para))>>,
                                     <<IF r = "ok" THEN Empty200
                                       ELSE handleError>>)

(***************************************************************************)
(* The gateway serving one request: the initial states are the requests    *)
(* as the router has matched them, each action is one api function run     *)
(* through makeHttpHandler.                                                *)
(***************************************************************************)

\* the parts of the system that the specification named by running leaves
\* out: they have not started and never move
Idle(running) ==
    /\ IF running = "gateway" THEN TRUE
       ELSE /\ gwPc = "idle"
            /\ gwBackend = "nil"
            /\ gwReq = [method |-> "GET", path |-> "/ping", query |-> NoQuery]
            /\ gwRoute = 0
            /\ gwParaForce = <<>>
            /\ gwBody = NoBody
            /\ gwDeployments = <<>>
            /\ gwVars = [n \in VarNames |-> <<>>]
            /\ gwCalls = <<>>
            /\ gwResp = <<>>
    /\ IF running = "deployer" THEN TRUE
       ELSE /\ dPc = "idle"
            /\ dTo = [found |-> FALSE]
            /\ dConfig = [decoded |-> FALSE]
            /\ d = <<>>
            /\ dSiblings = <<>>
            /\ dAction = "none"
            /\ dForce = <<>>
            /\ dCalls = <<>>
            /\ dDeploy = <<>>
            /\ dCaller = "none"
            /\ dNow = 0
            /\ dWaits = <<>>
            /\ dErr = "nil"
    /\ IF running = "race" THEN TRUE
       ELSE /\ rPc = <<>>
            /\ rTo = <<>>
            /\ rActualApp = <<>>
            /\ rCalls = <<>>
            /\ rApp = <<>>
    /\ IF running = "strategy" THEN TRUE
       ELSE /\ sPc = "idle"
            /\ sCall = <<>>
            /\ sObj = <<>>
            /\ sOld = <<>>
    /\ IF running = "client" THEN TRUE
       ELSE /\ cPc = "idle"
            /\ cCall = <<>>
            /\ cRet = <<>>
    /\ IF running = "serve" THEN TRUE
       ELSE /\ aPc = "idle"
            /\ aProtoAddrs = <<>>
            /\ aServers = <<>>
            /\ aChErrors = <<>>
            /\ aReceived = 0
            /\ aRet = <<>>

\* a construction that hands the nil client of a failed NewClient on
initMarathonClientNoFatal(ok) == IF ok THEN "client" ELSE "nil"

\* marathon.NewClient answers with a client or with an error; on the error
\* glog.Fatalf ends the process
initMarathonClient(ok) == IF ok THEN "client" ELSE "fatal"

\* New builds the server; ServeApi then listens and the request of this
\* behaviour arrives
New ==
    /\ gwPc = "new"
    /\ \E ok \in BOOLEAN :
          LET mClient == initMarathonClient(ok)
          IN  IF mClient = "fatal"
              THEN gwPc' = "exited" /\ gwBackend' = gwBackend
              ELSE /\ gwPc' = "received"
                   /\ gwBackend' = IF mClient # "nil" THEN mClient ELSE "nil"
    /\ UNCHANGED <<gwReq, gwRoute, gwParaForce, gwBody, gwDeployments,
                   gwVars, gwCalls, gwResp, dState, rState, sState, cState, aState>>

GatewayInit ==
    /\ Idle("gateway")
    /\ gwPc = "new"
    /\ gwBackend = "nil"
    /\ gwReq \in Requests
    /\ gwRoute = Dispatch(gwReq)
    /\ gwParaForce = <<>>
    /\ gwBody = NoBody
    /\ gwDeployments = <<>>
    /\ gwVars = [n \in VarNames |-> <<>>]
    /\ gwCalls = <<>>
    /\ gwResp = <<>>

GatewayNext ==
    \/ New
    \/ ping
    \/ notImplemented
    \/ noRoute
    \/ getSiteInfo
    \/ getSiteLeader
    \/ getProjectList
    \/ getProject
    \/ getProjectApplicationList
    \/ getApplicationList
    \/ getApplication
    \/ getVersion
    \/ getVersionList
    \/ getTaskList
    \/ getProjectDeploymentList
    \/ getDeployment
    \/ deleteDeployment
    \/ putApplication
    \/ putApplicationRestart
    \/ putApplicationScale
    \/ postApplication
    \/ deleteApplication
    \/ deleteProject
    \/ deleteTasks

GatewaySpec == GatewayInit /\ [][GatewayNext]_vars

(***************************************************************************)
(* Properties of the gateway                                               *)
(***************************************************************************)

\* the api functions whose request names one application of one project
AppScopedApis == {"getApplication", "getVersionList", "getVersion",
                  "getTaskList", "postApplication", "putApplication",
                  "putApplicationRestart", "putApplicationScale",
                  "deleteApplication"}

\* the scheduler-client calls of the request that carry an application id
AppCalls == {i \in 1..Len(gwCalls) : gwCalls[i].id # <<>>}

Rejected == \E i \in 1..Len(gwResp) : gwResp[i].code >= 400

\* C1: for every application-scoped request of project P, every
\* application id handed to the scheduler begins with exactly "/" + P + "/"
\* (case-sensitive), and a create or update whose body id lacks that prefix
\* is rejected with an error and no scheduler call.
C1_TenantIsolation ==
    (gwPc = "responded" /\ Handler \in AppScopedApis) =>
        LET prefix == <<"/">> \o gwVars[sconst.ProjId] \o <<"/">>
        IN  /\ \A i \in AppCalls : HasPrefix(gwCalls[i].id, prefix)
            /\ (/\ Handler \in {"postApplication", "putApplication"}
                /\ gwBody.kind = "app"
                /\ ~HasPrefix(gwBody.ID, prefix))
               => (gwCalls = <<>> /\ Rejected)

\* the deployment of the scheduler's list the request named
NamedDeployments == {i \in 1..Len(gwDeployments) :
                        gwDeployments[i].ID = gwVars[sconst.DeploymentId]}

EveryAffectedHasPrefix(dp) ==
    \A k \in 1..Len(dp.AffectedApps) :
        HasPrefix(dp.AffectedApps[k], <<"/">> \o gwVars[sconst.ProjId] \o <<"/">>)

\* C4: for a request of project P, get-deployment returns a deployment and
\* delete-deployment forwards the deletion only if every application the
\* deployment affects has an id beginning with "/" + P + "/".
C4_DeploymentIsolation ==
    gwPc = "responded" =>
        /\ Handler = "getDeployment" =>
              \A i \in 1..Len(gwResp) :
                  (gwResp[i].code = 200 /\ gwResp[i].val # <<>>)
                      => EveryAffectedHasPrefix(gwResp[i].val[1])
        /\ Handler = "deleteDeployment" =>
              ((\E i \in 1..Len(gwCalls) : gwCalls[i].op = "DeleteDeployment")
                  => \E i \in NamedDeployments :
                        EveryAffectedHasPrefix(gwDeployments[i]))

\* every task id of the body begins with P + "_" + A + "."
AllTasksOfApp ==
    \A i \in 1..Len(gwBody.IDs) :
        HasPrefix(gwBody.IDs[i], gwVars[sconst.ProjId] \o <<"_">> \o gwVars[sconst.AppId] \o <<".">>)

\* C5: a kill-tasks request for application A of project P that passed the
\* site check and whose body parsed either has every task id beginning with
\* P + "_" + A + "." and is forwarded as a single scheduler call carrying
\* the whole list, or is rejected with an error and no scheduler call; a
\* request that did not get that far calls the scheduler not at all.
C5_KillTasksAllOrNothing ==
    (gwPc = "responded" /\ Handler = "deleteTasks") =>
        IF gwBody.kind = "ids"
        THEN IF AllTasksOfApp
             THEN /\ Len(gwCalls) = 1
                  /\ gwCalls[1].op = "KillTasks"
                  /\ gwCalls[1].ids = gwBody.IDs
             ELSE gwCalls = <<>> /\ Rejected
        ELSE gwCalls = <<>> /\ Rejected

\* a kill-tasks request naming one task of the application and one of
\* another project's was answered
C5_Witness ==
    /\ gwPc = "responded"
    /\ Handler = "deleteTasks"
    /\ gwBody.kind = "ids"
    /\ Len(gwBody.IDs) = 2
    /\ HasPrefix(gwBody.IDs[1], gwVars[sconst.ProjId] \o <<"_">> \o gwVars[sconst.AppId] \o <<".">>)
    /\ ~AllTasksOfApp
    /\ gwCalls = <<>>

\* C6: a /proxy request that a route serves and whose site id differs from
\* the agent's configured site is answered with an error and performs no
\* scheduler call, the site info and leader routes included.
C6_SiteMismatchFailsClosed ==
    (/\ gwPc = "responded"
     /\ gwReq.path = "/proxy"
     /\ gwRoute # 0
     /\ gwVars[sconst.SiteId] # SiteName)
        => (gwCalls = <<>> /\ Rejected)

\* route j asks for every key/template pair route i asks for, and more
MoreSpecific(j, i) ==
    /\ Routes[j].method = Routes[i].method
    /\ Routes[j].path = Routes[i].path
    /\ Pairs(Routes[i].queries) \subseteq Pairs(Routes[j].queries)
    /\ Pairs(Routes[i].queries) # Pairs(Routes[j].queries)

\* C7: a request that satisfies a route is dispatched to the most specific
\* route it satisfies: no route whose pairs are a proper superset of the
\* selected route's pairs also matches the request.
C7_RoutePrecedence ==
    (gwPc = "responded" /\ gwRoute # 0) =>
        \A j \in 1..Len(Routes) :
            ~(Matches(gwReq, Routes[j]) /\ MoreSpecific(j, gwRoute))

(***************************************************************************)
(* The deployer: its inputs and what the sites client may answer           *)
(***************************************************************************)

\* defaultTimeout, in seconds
defaultTimeout == 360

\* time.Sleep(time.Duration(2) * time.Second) between two polls
pollSleep == 2

\* bounds of the model
MaxVersion == 2
MaxPolls == 2

\* d.namespace
Namespace == <<"a">>

\* a version annotation of the controller: absent, or a version
Annotations == Opt(1..MaxVersion)

\* the controllers ReplicationControllers(d.namespace).Get(d.name) may
\* return: none (Get failed), or one whose desired replica count is absent
\* or present and whose three action annotations are absent or a version
Controllers ==
    {[found |-> FALSE, hasDesired |-> FALSE, desiredReplicas |-> 0,
      scale |-> <<>>, reconcile |-> <<>>, retry |-> <<>>]}
    \cup [found : {TRUE}, hasDesired : {FALSE}, desiredReplicas : {0},
          scale : Annotations, reconcile : Annotations, retry : Annotations]
    \cup [found : {TRUE}, hasDesired : {TRUE}, desiredReplicas : {1, 2},
          scale : Annotations, reconcile : Annotations, retry : Annotations]

\* the templates of the model: without health checks, one of every kind of
\* id (relative, absolute in the namespace, the same up to case, of another
\* project, too deep); one template with a health check; and one without
\* CPUs, a pointer the converter dereferences. The health checks of a
\* template, with the protocol and the grace period of each: none, one
\* whose grace period is below defaultTimeout, one above it, and two of
\* which the first has the largest grace period
Templates ==
    [ID : {<<"x">>, <<"/", "a", "/", "x">>, <<"/", "A", "/", "x">>,
           <<"/", "b", "/", "x">>, <<"/", "a", "/", "x", "/", "y">>},
     CPUs : {<<1>>}, HealthChecks : {<<>>}]
    \cup [ID : {<<"x">>}, CPUs : {<<1>>},
          HealthChecks :
              {<<>>,
               <<[Protocol |-> "HTTP", GracePeriodSeconds |-> 300]>>,
               <<[Protocol |-> "HTTP", GracePeriodSeconds |-> 400]>>,
               <<[Protocol |-> "HTTP", GracePeriodSeconds |-> 500],
                 [Protocol |-> "TCP", GracePeriodSeconds |-> 300]>>}]
    \cup {[ID |-> <<"x">>, CPUs |-> <<>>, HealthChecks |-> <<>>]}

\* what DecodeDeploymentConfig returns: nothing (it failed), or a config
Configs ==
    {[decoded |-> FALSE, LatestVersion |-> 0, template |-> <<>>,
      Site |-> <<>>]}
    \cup [decoded : {TRUE}, LatestVersion : {MaxVersion},
          template : Opt(Templates), Site : {<<>>, <<"w">>}]

\* the deployment id a mutating call answers with, and the id of a
\* deployment the scheduler already runs on the application
NewDeploymentId == "n"
RunningDeploymentId == "r"

\* the applications GetApplication may return for the id it was asked for:
\* two instances run, against one or two desired
ActualApps(id) ==
    [ID : {id}, Instances : {<<2>>},
     HealthChecks : {<<>>, <<[Protocol |-> "HTTP", GracePeriodSeconds |-> 400]>>},
     Deployments : {<<>>, <<RunningDeploymentId>>}]

\* the Deployment struct before execute has filled it
NoD == [siteId |-> <<>>, projId |-> <<>>, appId |-> <<>>,
        desiredReplicas |-> 0, desiredApp |-> <<>>, actualApp |-> <<>>]

\* one call to the sites client: its arguments (the application, the
\* instance count or the deployment id it passes, and force), whether it
\* succeeded, and the deployment id it answered with
SiteCall(op, dd, app, n, id, force, ok, ret) ==
    [op |-> op, siteId |-> dd.siteId, projId |-> dd.projId,
     appId |-> dd.appId, app |-> app, n |-> n, id |-> id, force |-> force,
     ok |-> ok, ret |-> ret]

(***************************************************************************)
(* The deployer: execute, up to the result or the first convergence wait   *)
(***************************************************************************)

\* strings.Split(s, sep)
RECURSIVE Split(_, _)
Split(s, sep) ==
    IF \A i \in 1..Len(s) : s[i] # sep
    THEN <<s>>
    ELSE LET k == CHOOSE i \in 1..Len(s) :
                      s[i] = sep /\ \A j \in 1..(i - 1) : s[j] # sep
         IN  <<SubSeq(s, 1, k - 1)>> \o Split(SubSeq(s, k + 1, Len(s)), sep)

\* convertToMarathonHealthChecks: nil for no health checks (nil and the
\* empty list are both <<>>), otherwise check by check
convertToMarathonHealthChecks(healthChecks) ==
    [i \in 1..Len(healthChecks) |->
        [Protocol |-> healthChecks[i].Protocol,
         GracePeriodSeconds |-> healthChecks[i].GracePeriodSeconds]]

\* the fields of the converted application the model follows; Instances is
\* a pointer execute sets afterwards
convertToMarathonApplication(app) ==
    [ID |-> app.ID, Instances |-> <<>>,
     HealthChecks |-> convertToMarathonHealthChecks(app.HealthChecks)]

\* execute's "check app ID" block
resolveAppId(dd) ==
    IF HasPrefix(dd.appId, <<"/">>)
    THEN LET res == Split(dd.appId, "/")
         IN  IF Len(res) # 3
             THEN [err |-> "invalid app id", d |-> dd]
             ELSE IF ~EqualFold(res[2], dd.projId)
             THEN [err |-> "project id does not match", d |-> dd]
             ELSE [err |-> "nil", d |-> [dd EXCEPT !.appId = res[3]]]
    ELSE [err |-> "nil",
          d |-> [dd EXCEPT !.desiredApp =
                    <<[@[1] EXCEPT !.ID = <<"/">> \o dd.projId \o <<"/">> \o dd.appId]>>]]

\* a validation that does not look at the site
loadIgnoringSite(to, config) ==
    IF ~to.found THEN [err |-> "couldn't get deployment", d |-> NoD]
    ELSE IF ~config.decoded
    THEN [err |-> "couldn't decode deployment config", d |-> NoD]
    ELSE IF ~to.hasDesired
    THEN [err |-> "no desired replica count", d |-> NoD]
    ELSE LET d1 == [NoD EXCEPT !.desiredReplicas = to.desiredReplicas]
         IN  IF config.template = <<>> \/ config.template[1].CPUs = <<>>
             THEN [err |-> "panic", d |-> d1]
             ELSE LET app == [convertToMarathonApplication(config.template[1])
                                 EXCEPT !.Instances = <<to.desiredReplicas>>]
                  IN  resolveAppId([d1 EXCEPT !.desiredApp = <<app>>,
                                              !.siteId = config.Site,
                                              !.projId = Namespace,
                                              !.appId = app.ID])

\* execute up to the lookup of the application: the error it returns, if
\* any, and the Deployment struct as filled so far.  A nil template, or a
\* template without CPUs, is dereferenced by the converter.
load(to, config) ==
    IF ~to.found THEN [err |-> "couldn't get deployment", d |-> NoD]
    ELSE IF ~config.decoded
    THEN [err |-> "couldn't decode deployment config", d |-> NoD]
    ELSE IF ~to.hasDesired
    THEN [err |-> "no desired replica count", d |-> NoD]
    ELSE LET d1 == [NoD EXCEPT !.desiredReplicas = to.desiredReplicas]
         IN  IF config.template = <<>> \/ config.template[1].CPUs = <<>>
             THEN [err |-> "panic", d |-> d1]
             ELSE LET app == [convertToMarathonApplication(config.template[1])
                                 EXCEPT !.Instances = <<to.desiredReplicas>>]
                      d2 == [d1 EXCEPT !.desiredApp = <<app>>,
                                       !.siteId = config.Site]
                  IN  IF Len(config.Site) = 0
                      THEN [err |-> "no specified site", d |-> d2]
                      ELSE resolveAppId([d2 EXCEPT !.projId = Namespace,
                                                   !.appId = app.ID])

\* what a run of execute has done when it returns or starts to wait
Out0(dd) ==
    [d |-> dd, action |-> "none", force |-> <<>>, calls |-> <<>>,
     siblings |-> <<>>, deploy |-> <<>>, caller |-> "none", wait |-> FALSE,
     err |-> "nil"]

Return(o, e) == [o EXCEPT !.err = e]

\* a client that issues every call a second time
CalledAgain(o, c) == [o EXCEPT !.calls = @ \o <<c, c>>]

Called(o, c) == [o EXCEPT !.calls = @ \o <<c>>]

\* the entry of postMarathonDeploymentProcessing(deploy, ..) called by
\* caller; the waits themselves are the actions below
postMarathonDeploymentProcessing(o, deploy, caller) ==
    [o EXCEPT !.deploy = deploy, !.caller = caller, !.wait = TRUE]

\* a guard that forgets force
deployAbortsAlways(force, app) == Len(app.Deployments) > 0

\* !force && len(d.actualApp.Deployments) > 0
deployAborts(force, app) == ~force /\ Len(app.Deployments) > 0

\* deploy(force).  The client answers a call with an error, with a result,
\* or with neither (handleApi returns nil, nil for a 404 and for a 2xx other
\* than 200); deploy then reads a field of the nil result, which panics.
deploy(o, force) ==
    LET dd == o.d
        o1 == [o EXCEPT !.force = <<force>>]
        create(ok) == SiteCall("CreateApplication", dd, dd.desiredApp, 0, "",
                               FALSE, ok, "")
        update(ok, ret) == SiteCall("UpdateApplication", dd, dd.desiredApp, 0,
                                    "", force, ok, ret)
    IN  IF dd.actualApp = <<>>
        THEN {Return(Called(o1, create(FALSE)), "app creation failed"),
              Return(Called(o1, create(TRUE)), "panic"),
              postMarathonDeploymentProcessing(Called(o1, create(TRUE)),
                                               <<>>, "deploy")}
        ELSE IF deployAborts(force, dd.actualApp[1])
        THEN {Return(o1, "application currently is in deployment")}
        ELSE {Return(Called(o1, update(FALSE, "")),
                     "failed to update application"),
              Return(Called(o1, update(TRUE, "")), "panic"),
              postMarathonDeploymentProcessing(
                  Called(o1, update(TRUE, NewDeploymentId)),
                  <<NewDeploymentId>>, "deploy")}

\* a scale that tests for a deployment in flight before the instance count
scaleIsNoopUnlessDeploying(dd) ==
    /\ dd.actualApp[1].Instances[1] = dd.desiredReplicas
    /\ Len(dd.actualApp[1].Deployments) = 0

\* a scale that never finds the instances in place
scaleIsNoopNever(dd) == FALSE

\* *d.actualApp.Instances == d.desiredReplicas
scaleIsNoop(dd) == dd.actualApp[1].Instances[1] = dd.desiredReplicas

\* a scale that overlooks the deployment in flight
scaleAbortsNever(dd) == FALSE

\* d.actualApp.Deployments != nil && len(d.actualApp.Deployments) > 0
scaleAborts(dd) == Len(dd.actualApp[1].Deployments) > 0

\* scale; a nil result of ScaleApplication is dereferenced as in deploy
scale(o) ==
    LET dd == o.d
        call(ok, ret) == SiteCall("ScaleApplication", dd, <<>>,
                                  dd.desiredReplicas, "", FALSE, ok, ret)
    IN  IF dd.actualApp = <<>>
        THEN {Return(o, "application doesn't exist")}
        ELSE IF scaleIsNoop(dd)
        THEN {Return(o, "nil")}
        ELSE IF scaleAborts(dd)
        THEN {Return(o, "application currently is in deployment")}
        ELSE {Return(Called(o, call(FALSE, "")), "failed to scale"),
              Return(Called(o, call(TRUE, "")), "panic"),
              postMarathonDeploymentProcessing(
                  Called(o, call(TRUE, NewDeploymentId)),
                  <<NewDeploymentId>>, "scale")}

\* DeepDerivative on two slices of health checks: an empty a1 is unset; a
\* longer a1 never matches; otherwise element by element
healthChecksDerive(h1, h2) ==
    \/ Len(h1) = 0
    \/ /\ Len(h1) <= Len(h2)
       /\ \A i \in 1..Len(h1) : h1[i] = h2[i]

\* a comparison that leaves the instance count out
DeepDerivativeButInstances(desired, actual) ==
    \/ desired = <<>>
    \/ /\ actual # <<>>
       /\ (desired[1].ID = <<>> \/ desired[1].ID = actual[1].ID)
       /\ healthChecksDerive(desired[1].HealthChecks, actual[1].HealthChecks)

\* kapi.Semantic.DeepDerivative(d.desiredApp, d.actualApp): the fields the
\* desired application leaves unset are not compared; a nil actual
\* application matches no desired one
DeepDerivative(desired, actual) ==
    \/ desired = <<>>
    \/ /\ actual # <<>>
       /\ (desired[1].ID = <<>> \/ desired[1].ID = actual[1].ID)
       /\ \/ desired[1].Instances = <<>>
          \/ /\ actual[1].Instances # <<>>
             /\ desired[1].Instances[1] = actual[1].Instances[1]
       /\ healthChecksDerive(desired[1].HealthChecks, actual[1].HealthChecks)

retry(o) ==
    LET dd == o.d
    IN  IF DeepDerivative(dd.desiredApp, dd.actualApp)
        THEN {postMarathonDeploymentProcessing(
                  o,
                  IF Len(dd.actualApp[1].Deployments) > 0
                  THEN <<dd.actualApp[1].Deployments[1]>>
                  ELSE <<>>,
                  "retry")}
        ELSE deploy(o, FALSE)

\* d.to.Name
ToName == "to"

\* the controllers of the config as List may return them, each with the
\* template of the config encoded in it: d.to, running or complete, and
\* siblings of other versions, complete or failed, in any order.  The
\* siblings of odd version deployed x without health checks, those of even
\* version x with one.
ControllerLists(config) ==
    LET items ==
            [name : {ToName}, version : {config.LatestVersion},
             status : {"Running", "Complete"}, template : {config.template}]
            \cup UNION {[name : {ToString(v)}, version : {v},
                         status : {"Complete", "Failed"},
                         template : {<<[ID |-> <<"x">>, CPUs |-> <<1>>,
                                        HealthChecks |->
                                            IF v % 2 = 1 THEN <<>>
                                            ELSE <<[Protocol |-> "HTTP",
                                                    GracePeriodSeconds |-> 400]>>]>>}] :
                            v \in (1..MaxVersion) \ {config.LatestVersion}}
    IN  {l \in SeqsUpTo(items, MaxVersion) :
            /\ \E i \in 1..Len(l) : l[i].name = ToName
            /\ \A i, j \in 1..Len(l) : l[i].name = l[j].name => i = j}

\* sort.Sort(deployutil.ByLatestVersionDesc(deployments))
RECURSIVE ByLatestVersionDesc(_)
ByLatestVersionDesc(l) ==
    IF l = <<>> THEN <<>>
    ELSE LET m == CHOOSE i \in 1..Len(l) :
                      \A j \in 1..Len(l) : l[j].version <= l[i].version
         IN  <<l[m]>> \o ByLatestVersionDesc(SubSeq(l, 1, m - 1)
                                              \o SubSeq(l, m + 1, Len(l)))

\* a loop that does not skip d.to
rollbackTargetAny(deployments) ==
    LET c == {i \in 1..Len(deployments) : deployments[i].status = "Complete"}
    IN  IF c = {} THEN 0 ELSE CHOOSE i \in c : \A j \in c : i <= j

\* reconcile's loop: the index of the first controller of the sorted list
\* that is not d.to and whose deployment completed, 0 if there is none
rollbackTarget(deployments) ==
    LET c == {i \in 1..Len(deployments) :
                 /\ deployments[i].name # ToName
                 /\ deployments[i].status = "Complete"}
    IN  IF c = {} THEN 0 ELSE CHOOSE i \in c : \A j \in c : i <= j

\* reconcile once the controller list is sorted; a nil result of
\* DeleteDeployment is handed on to the wait, which then skips phase 1
reconcileWith(o, deployments) ==
    LET dd == o.d
        o1 == [o EXCEPT !.siblings = deployments]
        del(ok, ret) == SiteCall("DeleteDeployment", dd, <<>>, 0,
                                 dd.actualApp[1].Deployments[1], FALSE, ok, ret)
        nowhere == "nowhere to rollback"
    IN  IF rollbackTarget(deployments) = 0
        THEN IF dd.actualApp = <<>>
             THEN {Return(o1, nowhere)}
             ELSE IF Len(dd.actualApp[1].Deployments) > 0
             THEN {Return(Called(o1, del(FALSE, "")), "failure of rollback"),
                   postMarathonDeploymentProcessing(
                       Called(o1, del(TRUE, "")), <<>>, "reconcile"),
                   postMarathonDeploymentProcessing(
                       Called(o1, del(TRUE, NewDeploymentId)),
                       <<NewDeploymentId>>, "reconcile")}
             ELSE {Return(o1, nowhere)}
        ELSE deploy(o1, TRUE)

reconcile(o, config) ==
    {Return(o, "couldn't get controllers")}
    \cup UNION {reconcileWith(o, ByLatestVersionDesc(l)) :
                   l \in ControllerLists(config)}

\* a test that takes an annotation of any version
qualifiesAlways(annotation, config) == annotation # <<>>

\* isScale && version == d.config.Status.LatestVersion, and the like
qualifies(annotation, config) ==
    annotation # <<>> /\ annotation[1] = config.LatestVersion

\* the decision at the end of execute
decideAction(to, config) ==
    IF qualifies(to.scale, config) THEN "scale"
    ELSE IF qualifies(to.reconcile, config) THEN "reconcile"
    ELSE IF qualifies(to.retry, config) THEN "retry"
    ELSE "deploy"

act(to, config, o) ==
    LET a == decideAction(to, config)
        o1 == [o EXCEPT !.action = a]
    IN  CASE a = "scale" -> scale(o1)
          [] a = "reconcile" -> reconcile(o1, config)
          [] a = "retry" -> retry(o1)
          [] OTHER -> deploy(o1, FALSE)

\* every way a run of execute may go up to its return or its first wait
executeOutcomes(to, config) ==
    LET l == load(to, config)
        get(ok) == SiteCall("GetApplication", l.d, <<>>, 0, "", FALSE, ok, "")
        id == <<"/">> \o l.d.projId \o <<"/">> \o l.d.appId
    IN  IF l.err # "nil"
        THEN {Return(Out0(l.d), l.err)}
        ELSE {Return(Called(Out0(l.d), get(FALSE)),
                     "failure of checking existence of app")}
             \cup UNION {act(to, config,
                             Called(Out0([l.d EXCEPT !.actualApp = a]),
                                    get(TRUE))) :
                            a \in Opt(ActualApps(id))}

(***************************************************************************)
(* The deployer: the convergence waits                                     *)
(***************************************************************************)

RECURSIVE maxGrace(_, _)
maxGrace(hcs, max) ==
    IF hcs = <<>> THEN max
    ELSE maxGrace(Tail(hcs),
                  IF Head(hcs).GracePeriodSeconds > max
                  THEN Head(hcs).GracePeriodSeconds ELSE max)

\* a deadline that ignores the health checks
determineTimeoutDefault(app) == defaultTimeout

\* determineTimeout, in seconds
determineTimeout(app) ==
    IF app = <<>> THEN defaultTimeout
    ELSE IF Len(app[1].HealthChecks) > 0
    THEN maxGrace(app[1].HealthChecks, defaultTimeout)
    ELSE defaultTimeout

\* what the scheduler answers to the polls of one wait: the k-th poll gets
\* the k-th answer of the script, and the last answer lasts
Answer(script, k) == script[IF k <= Len(script) THEN k ELSE Len(script)]

\* the scripts of a wait: up to MaxPolls answers, of which the last is the
\* first that may end the wait (no poll follows an answer that is done) and
\* those before it are one answer that is not done, repeated
Scripts(answers, done) ==
    {[i \in 1..n |-> p] \o <<a>> :
        p \in answers \ done, n \in 0..(MaxPolls - 1), a \in answers}

\* GetDeployment: (nil, nil) for 404, the deployment, or an error
DeploymentAnswers == {[kind |-> "gone"], [kind |-> "found"], [kind |-> "error"]}

\* the applications a poll may see: whether AllTaskRunning() holds, the
\* health checks, and for each task its health check results, each alive,
\* not alive ("dead") or nil
PolledApp(running, hcs, tasks) ==
    [AllTaskRunning |-> running, HealthChecks |-> hcs,
     Tasks |-> [i \in 1..Len(tasks) |-> [HealthCheckResults |-> tasks[i]]]]

\* GetApplication: (nil, nil) for 404, an error, or the application: one
\* with tasks still to start; one without health checks; and with a health
\* check: one task whose result is alive, not alive or nil, one task
\* without a result yet, and two tasks of which the second has a result
\* that is not alive
ApplicationAnswers ==
    LET hc == <<[Protocol |-> "HTTP", GracePeriodSeconds |-> 400]>>
        apps ==
            {PolledApp(FALSE, <<>>, <<<<"alive">>>>),
             PolledApp(TRUE, <<>>, <<<<"dead">>>>),
             PolledApp(TRUE, hc, <<<<>>>>),
             PolledApp(TRUE, hc, <<<<"alive">>, <<"alive", "dead">>>>)}
            \cup {PolledApp(TRUE, hc, <<<<r>>>>) : r \in {"alive", "dead", "nil"}}
    IN  {[kind |-> "absent"], [kind |-> "error"]}
        \cup {[kind |-> "app", app |-> a] : a \in apps}

\* a predicate that reads only the first result of each task
isApplicationOkFirstResult(app) ==
    IF ~app.AllTaskRunning THEN FALSE
    ELSE IF Len(app.HealthChecks) = 0 THEN TRUE
    ELSE \A i \in 1..Len(app.Tasks) :
            \/ app.Tasks[i].HealthCheckResults = <<>>
            \/ app.Tasks[i].HealthCheckResults[1] = "alive"

isApplicationOk(app) ==
    IF ~app.AllTaskRunning THEN FALSE
    ELSE IF Len(app.HealthChecks) = 0 THEN TRUE
    ELSE \A i \in 1..Len(app.Tasks) :
            \A k \in 1..Len(app.Tasks[i].HealthCheckResults) :
                app.Tasks[i].HealthCheckResults[k] = "alive"

\* a loop that also leaves on an error of GetDeployment
DeploymentsDoneOrError == {a \in DeploymentAnswers : a.kind # "found"}

\* the answers that end waitForDeployment: err == nil && found == nil
DeploymentsDone == {a \in DeploymentAnswers : a.kind = "gone"}

\* the answers that end waitForApplication:
\* err == nil && (updatedActualApp == nil || isApplicationOk(updatedActualApp))
ApplicationsDone ==
    {a \in ApplicationAnswers :
        \/ a.kind = "absent"
        \/ a.kind = "app" /\ isApplicationOk(a.app)}

\* the loop of waitForDeployment and of waitForApplication, entered at
\* time now with k - 1 polls behind it: it gives up once the clock is past
\* stopTime, returns on an answer that is done, and sleeps otherwise.  Once
\* the script is at its last answer every later poll sees the same, so the
\* loop sleeps on until the clock is past stopTime.
RECURSIVE waitLoop(_, _, _, _, _)
waitLoop(now, stopTime, done, script, k) ==
    IF now > stopTime
    THEN [err |-> "timeout", now |-> now, polls |-> k - 1,
          first |-> script[1].kind, last |-> Answer(script, k - 1)]
    ELSE IF Answer(script, k) \in done
    THEN [err |-> "nil", now |-> now, polls |-> k,
          first |-> script[1].kind, last |-> Answer(script, k)]
    ELSE IF k >= Len(script)
    THEN LET sleeps == (stopTime - now) \div pollSleep + 1
         IN  [err |-> "timeout", now |-> now + pollSleep * sleeps,
              polls |-> k + sleeps - 1,
              first |-> script[1].kind, last |-> Answer(script, k)]
    ELSE waitLoop(now + pollSleep, stopTime, done, script, k + 1)

\* what execute returns once postMarathonDeploymentProcessing returned e to
\* caller: scale and retry return e; deploy assigns e to an err declared
\* inside its branch and returns its own err, which is still nil; reconcile
\* drops e and fails for want of a rollback target
returned(caller, e) ==
    CASE caller = "deploy" -> "nil"
      [] caller = "reconcile" -> "nowhere to rollback"
      [] OTHER -> e

WaitRecord(wait, id, timeout, r) ==
    [wait |-> wait, id |-> id, start |-> dNow, timeout |-> timeout,
     end |-> r.now, err |-> r.err, polls |-> r.polls, first |-> r.first,
     last |-> r.last]

(***************************************************************************)
(* The deployer running once: the initial states are the controller and    *)
(* the config the run will read; execute runs up to its return or its      *)
(* first wait, and each wait is one action.                                *)
(***************************************************************************)

execute ==
    /\ dPc = "start"
    /\ \E o \in executeOutcomes(dTo, dConfig) :
          /\ d' = o.d
          /\ dSiblings' = o.siblings
          /\ dAction' = o.action
          /\ dForce' = o.force
          /\ dCalls' = o.calls
          /\ dDeploy' = o.deploy
          /\ dCaller' = o.caller
          /\ dErr' = o.err
          /\ dPc' = IF ~o.wait THEN "done"
                    ELSE IF o.deploy # <<>> THEN "waitForDeployment"
                    ELSE "waitForApplication"
    /\ UNCHANGED <<dTo, dConfig, dNow, dWaits, gwState, rState, sState, cState,
                   aState>>

\* phase 1 of postMarathonDeploymentProcessing
waitForDeployment ==
    /\ dPc = "waitForDeployment"
    /\ \E script \in Scripts(DeploymentAnswers, DeploymentsDone) :
          LET timeout == determineTimeout(d.desiredApp)
              r == waitLoop(dNow, dNow + timeout, DeploymentsDone, script, 1)
          IN  /\ dNow' = r.now
              /\ dWaits' = Append(dWaits,
                                  WaitRecord("deployment", dDeploy[1], timeout, r))
              /\ IF r.err = "nil"
                 THEN dPc' = "waitForApplication" /\ UNCHANGED dErr
                 ELSE /\ dPc' = "done"
                      /\ dErr' = returned(dCaller,
                                          "failed to wait until marathon deployment ok")
    /\ UNCHANGED <<dTo, dConfig, d, dSiblings, dAction, dForce, dCalls,
                   dDeploy, dCaller, gwState, rState, sState, cState, aState>>

\* phase 2 of postMarathonDeploymentProcessing
waitForApplication ==
    /\ dPc = "waitForApplication"
    /\ \E script \in Scripts(ApplicationAnswers, ApplicationsDone) :
          LET timeout == determineTimeout(d.desiredApp)
              r == waitLoop(dNow, dNow + timeout, ApplicationsDone, script, 1)
          IN  /\ dNow' = r.now
              /\ dWaits' = Append(dWaits, WaitRecord("application", "", timeout, r))
              /\ dPc' = "done"
              /\ dErr' = returned(dCaller,
                                  IF r.err = "nil" THEN "nil"
                                  ELSE "failed to wait until marathon application gets ready")
    /\ UNCHANGED <<dTo, dConfig, d, dSiblings, dAction, dForce, dCalls,
                   dDeploy, dCaller, gwState, rState, sState, cState, aState>>

DeployerInit ==
    /\ Idle("deployer")
    /\ dPc = "start"
    /\ dTo \in Controllers
    /\ dConfig \in Configs
    /\ d = NoD
    /\ dSiblings = <<>>
    /\ dAction = "none"
    /\ dForce = <<>>
    /\ dCalls = <<>>
    /\ dDeploy = <<>>
    /\ dCaller = "none"
    /\ dNow = 0
    /\ dWaits = <<>>
    /\ dErr = "nil"

DeployerNext ==
    \/ execute
    \/ waitForDeployment
    \/ waitForApplication

DeployerSpec == DeployerInit /\ [][DeployerNext]_vars

(***************************************************************************)
(* Properties of the deployer                                              *)
(***************************************************************************)

\* the call c is one of the sites-client operations that change the scheduler
IsMutation(c) == c.op \in {"CreateApplication", "UpdateApplication",
                           "ScaleApplication", "DeleteDeployment"}

\* the calls of the run that change the scheduler, in order
Mutations == SelectSeq(dCalls, IsMutation)

\* execute looked the application up and the lookup did not fail
Fetched ==
    /\ dCalls # <<>>
    /\ dCalls[1].op = "GetApplication"
    /\ dCalls[1].ok

\* the run ended with an error
Failed == dPc = "done" /\ dErr # "nil"

\* the annotation is present and names the config's latest version
Current(annotation) ==
    annotation # <<>> /\ annotation[1] = dConfig.LatestVersion

\* C2: a run that passed validation and the lookup of the application
\* executes exactly one action, the first of SCALE, RECONCILE, RETRY whose
\* annotation is present with a version equal to the config's latest
\* version, and DEPLOY with force = false if none is; a run that did not
\* get that far executes none.
C2_ActionDecision ==
    dPc # "start" =>
        /\ Fetched =>
              dAction = (IF Current(dTo.scale) THEN "scale"
                         ELSE IF Current(dTo.reconcile) THEN "reconcile"
                         ELSE IF Current(dTo.retry) THEN "retry"
                         ELSE "deploy")
        /\ ~Fetched => (dAction = "none" /\ Mutations = <<>>)
        /\ dAction = "deploy" => dForce = <<FALSE>>
        /\ dAction = "scale" =>
              (dForce = <<>> /\ \A i \in 1..Len(Mutations) :
                                   Mutations[i].op = "ScaleApplication")
        /\ dAction = "retry" => dForce \in {<<>>, <<FALSE>>}
        /\ dAction = "reconcile" => dForce \in {<<>>, <<TRUE>>}

\* a run whose scale annotation is stale and whose reconcile and retry
\* annotations are current reconciled
C2_Witness ==
    /\ dPc # "start"
    /\ dTo.scale # <<>>
    /\ ~Current(dTo.scale)
    /\ Current(dTo.reconcile)
    /\ Current(dTo.retry)
    /\ dAction = "reconcile"

\* C3: deploy(force) creates the application when it does not exist; when
\* it exists with a deployment in flight and force is false it aborts with
\* an error and without a mutating call; otherwise it issues one update.
C3_DeployDecisionTable ==
    dForce # <<>> =>
        IF d.actualApp = <<>>
        THEN Len(Mutations) = 1 /\ Mutations[1].op = "CreateApplication"
        ELSE IF Len(d.actualApp[1].Deployments) > 0 /\ ~dForce[1]
        THEN Mutations = <<>> /\ Failed /\ dWaits = <<>>
        ELSE Len(Mutations) = 1 /\ Mutations[1].op = "UpdateApplication"

\* deploy(true) updated an application that has a deployment in flight
C3_Witness ==
    /\ dForce = <<TRUE>>
    /\ d.actualApp # <<>>
    /\ Len(d.actualApp[1].Deployments) > 0
    /\ Len(Mutations) = 1
    /\ Mutations[1].op = "UpdateApplication"

\* C8: SCALE succeeds at once, without a mutating call, when the
\* application exists and its instance count equals the desired count,
\* whether or not a deployment is in flight.
C8_ScaleIdempotence ==
    (/\ dAction = "scale"
     /\ d.actualApp # <<>>
     /\ d.actualApp[1].Instances[1] = d.desiredReplicas)
        => (dPc = "done" /\ dErr = "nil" /\ Mutations = <<>> /\ dWaits = <<>>)

\* a scale found the instances in place while a deployment was in flight
C8_Witness ==
    /\ dAction = "scale"
    /\ d.actualApp # <<>>
    /\ d.actualApp[1].Instances[1] = d.desiredReplicas
    /\ Len(d.actualApp[1].Deployments) > 0
    /\ dPc = "done"

\* the convergence wait was started for deployment id: the run is in its
\* phase 1 for id, or phase 1 for id is the first wait it performed
WaitsOn(id) ==
    /\ dDeploy = <<id>>
    /\ \/ dPc = "waitForDeployment" /\ dWaits = <<>>
       \/ /\ dWaits # <<>>
          /\ dWaits[1].wait = "deployment"
          /\ dWaits[1].id = id

\* the convergence wait was started without a deployment id: phase 1 is
\* skipped
WaitsOnApplication ==
    /\ dDeploy = <<>>
    /\ \/ dPc = "waitForApplication" /\ dWaits = <<>>
       \/ dWaits # <<>> /\ dWaits[1].wait = "application"

\* C9: SCALE fails without a mutating call when the application does not
\* exist, and when the counts differ while a deployment is in flight;
\* otherwise, the counts differing, it issues one scale call to the desired
\* count and, the call having returned a deployment id, waits for
\* convergence on that id; a call that fails or returns none fails the run.
C9_ScaleGuards ==
    (dAction = "scale" /\ dPc # "start") =>
        IF d.actualApp = <<>>
        THEN Failed /\ Mutations = <<>>
        ELSE IF d.actualApp[1].Instances[1] = d.desiredReplicas
        THEN Mutations = <<>>
        ELSE IF Len(d.actualApp[1].Deployments) > 0
        THEN Failed /\ Mutations = <<>>
        ELSE /\ Len(Mutations) = 1
             /\ Mutations[1].op = "ScaleApplication"
             /\ Mutations[1].n = d.desiredReplicas
             /\ IF Mutations[1].ok /\ Mutations[1].ret # ""
                THEN WaitsOn(Mutations[1].ret)
                ELSE Failed /\ dWaits = <<>>

\* a scale from two instances to one went through both waits
C9_Witness ==
    /\ dAction = "scale"
    /\ dPc = "done"
    /\ Len(Mutations) = 1
    /\ Mutations[1].op = "ScaleApplication"
    /\ Mutations[1].n = 1
    /\ Len(dWaits) = 2
    /\ dWaits[1].id = NewDeploymentId

\* the desired application matches the actual one: the actual one exists
\* and agrees on every field the desired one sets
DesiredMatchesActual ==
    /\ d.actualApp # <<>>
    /\ d.desiredApp[1].ID = d.actualApp[1].ID
    /\ d.desiredApp[1].Instances = d.actualApp[1].Instances
    /\ \/ d.desiredApp[1].HealthChecks = <<>>
       \/ d.desiredApp[1].HealthChecks = d.actualApp[1].HealthChecks

CompletedSiblings ==
    {i \in 1..Len(dSiblings) : /\ dSiblings[i].name # ToName
                               /\ dSiblings[i].status = "Complete"}

\* the completed sibling of the highest version
LatestCompletedSibling ==
    dSiblings[CHOOSE i \in CompletedSiblings :
                 \A j \in CompletedSiblings :
                    dSiblings[j].version <= dSiblings[i].version]

\* the application a run would desire if it deployed template tpl
DesiredOf(tpl) ==
    [ID |-> IF HasPrefix(tpl.ID, <<"/">>) THEN tpl.ID
            ELSE <<"/">> \o Namespace \o <<"/">> \o tpl.ID,
     Instances |-> <<d.desiredReplicas>>,
     HealthChecks |-> tpl.HealthChecks]

\* C11: RECONCILE, when a sibling other than the current controller is
\* complete, redeploys with force = true, and the application it submits
\* to the scheduler is built from the template of the completed sibling of
\* the highest version.
C11_ReconcileRollsBack ==
    (dAction = "reconcile" /\ CompletedSiblings # {}) =>
        /\ dForce = <<TRUE>>
        /\ Len(Mutations) = 1
        /\ Mutations[1].op \in {"CreateApplication", "UpdateApplication"}
        /\ Mutations[1].app = <<DesiredOf(LatestCompletedSibling.template[1])>>

\* C12: RECONCILE, when the controllers were listed and no sibling other
\* than the current controller is complete, never succeeds and never
\* creates, updates or scales; when the fetched application has a
\* deployment in flight it issues one delete of that deployment, and no
\* call that changes the scheduler otherwise.
C12_ReconcileWithoutTarget ==
    (dAction = "reconcile" /\ dSiblings # <<>> /\ CompletedSiblings = {}) =>
        /\ dPc = "done" => Failed
        /\ dForce = <<>>
        /\ IF d.actualApp # <<>> /\ Len(d.actualApp[1].Deployments) > 0
           THEN /\ Len(Mutations) = 1
                /\ Mutations[1].op = "DeleteDeployment"
                /\ Mutations[1].id = d.actualApp[1].Deployments[1]
           ELSE Mutations = <<>>

\* a reconcile without rollback target deleted the deployment in flight,
\* saw the application converge, and failed all the same
C12_Witness ==
    /\ dAction = "reconcile"
    /\ dSiblings # <<>>
    /\ CompletedSiblings = {}
    /\ dPc = "done"
    /\ Len(Mutations) = 1
    /\ Mutations[1].ok
    /\ Len(dWaits) = 2
    /\ dWaits[2].err = "nil"
    /\ dErr = "nowhere to rollback"

\* the run created, updated or scaled the application
Deployed ==
    \E i \in 1..Len(Mutations) :
        Mutations[i].op \in {"CreateApplication", "UpdateApplication",
                             "ScaleApplication"}

\* the run ended without error
Succeeded == dPc = "done" /\ dErr = "nil"

\* the last wait of the run is phase 2, and its last poll saw the
\* application present and ok
Converged ==
    /\ dWaits # <<>>
    /\ LET w == dWaits[Len(dWaits)]
       IN  /\ w.wait = "application"
           /\ w.polls > 0
           /\ w.last.kind = "app"
           /\ isApplicationOk(w.last.app)

\* C13: a run that created, updated or scaled the application succeeds only
\* if the last poll of phase 2 saw the application present and ok; an
\* absent application is not a converged one.
C13_SuccessImpliesConverged ==
    (Succeeded /\ Deployed) => Converged

\* a wait of the run gave up at its deadline
TimedOut == \E i \in 1..Len(dWaits) : dWaits[i].err = "timeout"

\* C14: a run whose wait gave up, because the deployment never disappeared
\* or the application never became ok, ends with a failure.
C14_TimeoutFailsRun ==
    (dPc = "done" /\ TimedOut) => Failed

\* C15: the two phases of a convergence wait share one deadline D: from the
\* start of phase 1 to the end of phase 2 no more than D plus one poll
\* interval passes.
C15_SharedDeadline ==
    Len(dWaits) = 2 =>
        dWaits[2].end - dWaits[1].start <= dWaits[1].timeout + pollSleep

\* phase 1 of the run's convergence wait has run
Phase1Ran == dWaits # <<>> /\ dWaits[1].wait = "deployment"

\* C16: phase 1 runs if and only if a deployment id is known, and completes
\* exactly when a poll finds that deployment absent without error; phase 2
\* starts only after phase 1 completed or was skipped; a timeout of phase 1
\* fails the run without phase 2 being started.
C16_PollPhaseOrdering ==
    /\ dPc = "waitForDeployment" => (dDeploy # <<>> /\ dWaits = <<>>)
    /\ dPc = "waitForApplication" =>
          IF dDeploy = <<>> THEN dWaits = <<>>
          ELSE Len(dWaits) = 1 /\ Phase1Ran /\ dWaits[1].err = "nil"
    /\ dWaits # <<>> =>
          /\ Phase1Ran <=> dDeploy # <<>>
          /\ \A i \in 2..Len(dWaits) : dWaits[i].wait = "application"
          /\ Len(dWaits) <= 2
    /\ Phase1Ran =>
          /\ dWaits[1].id = dDeploy[1]
          /\ dWaits[1].err = "nil" <=> dWaits[1].last.kind = "gone"
          /\ Len(dWaits) = 2 => dWaits[1].err = "nil"
          /\ dWaits[1].err = "timeout" =>
                (Len(dWaits) = 1 /\ dPc = "done" /\ Failed)

\* the phase 2 waits of the run whose last poll saw an application
ApplicationWaits ==
    {i \in 1..Len(dWaits) : /\ dWaits[i].wait = "application"
                            /\ dWaits[i].last.kind = "app"}

\* the health check results recorded for the tasks of app
RecordedResults(app) ==
    UNION {{app.Tasks[t].HealthCheckResults[k] :
               k \in 1..Len(app.Tasks[t].HealthCheckResults)} :
              t \in 1..Len(app.Tasks)}

\* C17: a poll of phase 2 that sees an application takes it as ok if and
\* only if all its tasks are running and either it declares no health
\* checks or every recorded health check result of every task is present
\* and alive.
C17_ConvergencePredicate ==
    \A i \in ApplicationWaits :
        LET app == dWaits[i].last.app
        IN  dWaits[i].err = "nil" <=>
                /\ app.AllTaskRunning
                /\ \/ app.HealthChecks = <<>>
                   \/ RecordedResults(app) \subseteq {"alive"}

\* a phase 2 gave up on an application whose tasks all run and of which one
\* task has an alive result followed by one that is not
C17_Witness ==
    \E i \in ApplicationWaits :
        /\ dWaits[i].err = "timeout"
        /\ dWaits[i].last.app.AllTaskRunning
        /\ \E t \in 1..Len(dWaits[i].last.app.Tasks) :
              dWaits[i].last.app.Tasks[t].HealthCheckResults
                  = <<"alive", "dead">>

\* C18: while the application declares health checks and one of its tasks
\* has no health check result yet, phase 2 does not take it as ok.
C18_NoResultIsInconclusive ==
    \A i \in ApplicationWaits :
        LET app == dWaits[i].last.app
        IN  (/\ app.HealthChecks # <<>>
             /\ \E t \in 1..Len(app.Tasks) :
                   app.Tasks[t].HealthCheckResults = <<>>)
                => dWaits[i].err # "nil"

\* the grace periods of the desired application's health checks
GracePeriods ==
    {d.desiredApp[1].HealthChecks[i].GracePeriodSeconds :
        i \in 1..Len(d.desiredApp[1].HealthChecks)}

\* C19: the deadline of every wait is the larger of 360 seconds and the
\* largest grace period of the desired application's health checks; it is
\* 360 seconds when there are none, and never less.
C19_DeadlineFormula ==
    \A i \in 1..Len(dWaits) :
        /\ dWaits[i].timeout >= 360
        /\ dWaits[i].timeout \in GracePeriods \cup {360}
        /\ \A g \in GracePeriods : g <= dWaits[i].timeout
        /\ GracePeriods = {} => dWaits[i].timeout = 360

\* both phases ran under the deadline of the larger of two grace periods,
\* and the second phase ran into it
C19_Witness ==
    /\ Len(dWaits) = 2
    /\ GracePeriods = {300, 500}
    /\ dWaits[1].timeout = 500
    /\ dWaits[2].err = "timeout"
    /\ dWaits[2].end > dWaits[2].start + 500

\* C20: DEPLOY in namespace N of application name A with desired replica
\* count R, the application being absent, issues exactly one call that
\* changes the scheduler, a create whose application id is "/" N "/" A and
\* whose instance count is R, and skips phase 1 of the wait.
C20_CreatePayload ==
    (dAction = "deploy" /\ Fetched /\ d.actualApp = <<>>) =>
        /\ Len(Mutations) = 1
        /\ Mutations[1].op = "CreateApplication"
        /\ Mutations[1].app # <<>>
        /\ Mutations[1].app[1].ID = <<"/">> \o Namespace \o <<"/">> \o d.appId
        /\ Mutations[1].app[1].Instances = <<dTo.desiredReplicas>>
        /\ dPc # "waitForDeployment"
        /\ \A i \in 1..Len(dWaits) : dWaits[i].wait = "application"

\* the template's application id is the absolute path of an application of
\* the run's namespace: "/" namespace "/" app, with no further "/" in app
InNamespace(id) ==
    LET prefix == <<"/">> \o Namespace \o <<"/">>
    IN  /\ HasPrefix(id, prefix)
        /\ \A i \in (Len(prefix) + 1)..Len(id) : id[i] # "/"

\* C21: a run whose template names the application by an absolute id goes
\* on only if the id is "/" project "/" app with project equal to the
\* namespace, and fails before any call otherwise; the application id of
\* every create and update is exactly "/" namespace "/" app.
C21_ControllerTenantScope ==
    (dPc # "start" /\ dConfig.template # <<>>) =>
        /\ (/\ HasPrefix(dConfig.template[1].ID, <<"/">>)
            /\ ~InNamespace(dConfig.template[1].ID))
              => (dCalls = <<>> /\ Failed)
        /\ \A i \in 1..Len(Mutations) :
              Mutations[i].op \in {"CreateApplication", "UpdateApplication"}
                  => Mutations[i].app[1].ID
                         = <<"/">> \o Namespace \o <<"/">> \o d.appId

\* C22: a run whose controller has no desired replica count, or whose
\* config has no application template or names no site, ends in failure
\* without a single call to the gateway.  (A missing template ends the run
\* by the panic of the converter.)
C22_ConfigErrorsFatal ==
    (/\ dPc # "start"
     /\ dTo.found
     /\ dConfig.decoded
     /\ \/ ~dTo.hasDesired
        \/ dConfig.template = <<>>
        \/ dConfig.Site = <<>>)
        => (dPc = "done" /\ Failed /\ dCalls = <<>>)

\* a run with a desired replica count and a template, but without a site,
\* failed for want of the site
C22_Witness ==
    /\ dPc = "done"
    /\ dTo.hasDesired
    /\ dConfig.template # <<>>
    /\ dConfig.template[1].CPUs # <<>>
    /\ dConfig.Site = <<>>
    /\ dErr = "no specified site"
    /\ dCalls = <<>>

\* C23: a run issues at most one call that changes the scheduler; when
\* that call returns an error the run fails at once, without issuing it
\* again and without a convergence wait.
C23_NoInternalRetry ==
    /\ Len(Mutations) <= 1
    /\ (Mutations # <<>> /\ ~Mutations[1].ok) =>
          (dPc = "done" /\ Failed /\ dWaits = <<>>)

\* the update of a run returned an error and the run failed without a wait
C23_Witness ==
    /\ Len(Mutations) = 1
    /\ Mutations[1].op = "UpdateApplication"
    /\ ~Mutations[1].ok
    /\ dPc = "done"
    /\ dErr = "failed to update application"
    /\ dWaits = <<>>

(***************************************************************************)
(* Two controller runs against one application                             *)
(***************************************************************************)

\* the number of controller runs that work on the application at once
MaxRuns == 2

\* the deployment config both runs decode
RaceConfig ==
    [decoded |-> TRUE, LatestVersion |-> MaxVersion,
     template |-> <<[ID |-> <<"x">>, CPUs |-> <<1>>, HealthChecks |-> <<>>]>>,
     Site |-> SiteName]

\* d after execute's load of run r
loaded(r) == load(rTo[r], RaceConfig).d

\* the application id both runs ask the gateway for
RaceAppId == <<"/">> \o Namespace \o <<"/", "x">>

\* the application after the scheduler accepted the mutating call c: the
\* new definition is stored and one more deployment is in flight
accepted(app, c) ==
    LET def == IF c.op = "ScaleApplication"
               THEN [Instances |-> <<c.n>>,
                     HealthChecks |-> app[1].HealthChecks]
               ELSE [Instances |-> c.app[1].Instances,
                     HealthChecks |-> c.app[1].HealthChecks]
        before == IF app = <<>> THEN <<>> ELSE app[1].Deployments
    IN  <<[ID |-> RaceAppId, Instances |-> def.Instances,
           HealthChecks |-> def.HealthChecks,
           Deployments |-> Append(before, NewDeploymentId)]>>

\* d.actualApp as the action of run r reads it
actualAppLive(r) == rApp

actualApp(r) == rActualApp[r]

\* execute up to its GetApplication call: run r fetches the application
fetch(r) ==
    /\ rPc[r] = "start"
    /\ \E ok \in BOOLEAN :
          /\ rCalls' = Append(rCalls,
                 [run |-> r,
                  call |-> SiteCall("GetApplication", loaded(r), <<>>, 0, "",
                                    FALSE, ok, "")])
          /\ rPc' = [rPc EXCEPT ![r] = IF ok THEN "fetched" ELSE "failed"]
          /\ rActualApp' = [rActualApp EXCEPT ![r] = IF ok THEN rApp ELSE @]
    /\ UNCHANGED <<rTo, rApp, gwState, dState, sState, cState, aState>>

\* execute from its switch on: run r decides on the application it fetched
\* and, unless a guard ends it, issues its mutating call
submit(r) ==
    /\ rPc[r] = "fetched"
    /\ \E o \in act(rTo[r], RaceConfig,
                    Out0([loaded(r) EXCEPT !.actualApp = actualApp(r)])) :
          /\ rCalls' = rCalls \o [i \in 1..Len(o.calls) |->
                                     [run |-> r, call |-> o.calls[i]]]
          /\ rApp' = IF o.calls # <<>> /\ o.calls[1].ok
                     THEN accepted(rApp, o.calls[1])
                     ELSE rApp
    /\ rPc' = [rPc EXCEPT ![r] = "done"]
    /\ UNCHANGED <<rTo, rActualApp, gwState, dState, sState, cState, aState>>

\* the scheduler finishes the oldest deployment in flight
schedulerCompletes ==
    /\ rApp # <<>>
    /\ rApp[1].Deployments # <<>>
    /\ rApp' = <<[rApp[1] EXCEPT !.Deployments = Tail(@)]>>
    /\ UNCHANGED <<rPc, rTo, rActualApp, rCalls, gwState, dState, sState,
                   cState, aState>>

\* each run reads its own controller: a plain deployment or a scale
\* request of the latest version, for one or two replicas
RaceInit ==
    /\ Idle("race")
    /\ rPc = [r \in (1..MaxRuns) |-> "start"]
    /\ rTo \in [(1..MaxRuns) ->
                    [found : {TRUE}, hasDesired : {TRUE},
                     desiredReplicas : {1, 2}, scale : {<<>>, <<MaxVersion>>},
                     reconcile : {<<>>}, retry : {<<>>}]]
    /\ rActualApp = [r \in (1..MaxRuns) |-> <<>>]
    /\ rCalls = <<>>
    /\ rApp \in Opt(ActualApps(RaceAppId))

RaceNext ==
    \/ \E r \in (1..MaxRuns) : fetch(r)
    \/ \E r \in (1..MaxRuns) : submit(r)
    \/ schedulerCompletes

RaceSpec == RaceInit /\ [][RaceNext]_vars

\* the mutating calls run r issued
MutationsOf(r) ==
    SelectSeq(rCalls, LAMBDA c : c.run = r /\ IsMutation(c.call))

\* the guards of deploy and scale let the application run r fetched pass
PassesGuard(r) ==
    IF qualifies(rTo[r].scale, RaceConfig)
    THEN /\ rActualApp[r] # <<>>
         /\ rActualApp[r][1].Instances # <<rTo[r].desiredReplicas>>
         /\ rActualApp[r][1].Deployments = <<>>
    ELSE \/ rActualApp[r] = <<>>
         \/ rActualApp[r][1].Deployments = <<>>

\* C24: the in-progress guard of DEPLOY and SCALE is check-then-act: a run
\* that has decided issued its mutating call exactly if the application it
\* fetched earlier passes the guard, whatever the scheduler holds by then
C24_GuardIsCheckThenAct ==
    \A r \in (1..MaxRuns) :
        rPc # <<>> /\ rPc[r] = "done" =>
            (MutationsOf(r) # <<>> <=> PassesGuard(r))

\* both runs fetched before either submitted, both passed the guard and
\* both issued a mutating call, the second with a deployment in flight
C24_Witness ==
    /\ Len(rCalls) = 4
    /\ rCalls[1].call.op = "GetApplication" /\ rCalls[1].call.ok
    /\ rCalls[2].call.op = "GetApplication" /\ rCalls[2].call.ok
    /\ rCalls[1].run # rCalls[2].run
    /\ IsMutation(rCalls[3].call) /\ rCalls[3].call.ok
    /\ IsMutation(rCalls[4].call)
    /\ rCalls[3].run # rCalls[4].run
    /\ rActualApp[rCalls[4].run] # <<>>
    /\ rActualApp[rCalls[4].run][1].Deployments = <<>>
    /\ Len(rApp[1].Deployments) = 2

(***************************************************************************)
(* Properties of the gateway's error handling and startup                  *)
(***************************************************************************)

\* the write of the api function itself, after those of makeHttpHandler
OwnWrite == gwResp[Len(gwResp)]

\* what the last scheduler-client call of the request returned
LastRes == IF gwCalls = <<>> THEN "none" ELSE gwCalls[Len(gwCalls)].res

\* the GET api functions that target one resource or its sub-collection
SingleTargetGets == {"getProject", "getProjectApplicationList",
                     "getApplication", "getVersion", "getVersionList",
                     "getTaskList", "getDeployment"}

\* the scheduler reports the target of the request as not found: by an
\* ErrCodeNotFound error, or, for a deployment, by a list without its id
TargetNotFound ==
    IF Handler = "getDeployment"
    THEN /\ gwCalls # <<>>
         /\ LastRes = "ok"
         /\ \A i \in 1..Len(gwDeployments) :
               gwDeployments[i].ID # gwVars[sconst.DeploymentId]
    ELSE LastRes = "notfound"

\* C25: every GET that targets one resource or its sub-collection (project,
\* project's application list, application, version, version list, task
\* list, deployment) answers 404 with an empty body when the scheduler
\* reports the target as not found
C25_AbsentMapsTo404 ==
    (gwPc = "responded" /\ Handler \in SingleTargetGets /\ TargetNotFound)
        => OwnWrite = Empty404

\* the request names a target outside the project of its path: an
\* application id in the body without the project prefix, or a task id
\* without the prefix of the application
TenantScopeViolation ==
    \/ /\ Handler \in {"postApplication", "putApplication"}
       /\ gwBody.kind = "app"
       /\ ~HasPrefix(gwBody.ID, projIdPrefix(gwVars))
    \/ /\ Handler = "deleteTasks"
       /\ gwBody.kind = "ids"
       /\ ~tasksBelong(gwBody.IDs, safeAppId(gwVars))

\* C26: for every api function a scheduler-client error other than
\* not-found, a site mismatch and a tenant-scope violation are each answered
\* with 406 and a plain-text diagnostic, and no scheduler-client error is
\* answered with a 500-class status
C26_NoServerErrorForSchedulerFailure ==
    (gwPc = "responded" /\ gwRoute # 0 /\ gwReq.path = "/proxy") =>
        /\ LastRes = "error" => OwnWrite = handleError
        /\ gwVars[sconst.SiteId] # SiteName => OwnWrite = handleError
        /\ (gwVars[sconst.SiteId] = SiteName /\ TenantScopeViolation)
              => OwnWrite = handleError
        /\ LastRes \in {"error", "notfound"} => OwnWrite.code < 500

\* C27: when the scheduler client returns an error, and with it a nil
\* result, the api function ends by writing an HTTP response: it does not
\* dereference the nil result
C27_NoCrashOnSchedulerError ==
    (gwPc = "responded" /\ LastRes \in {"error", "notfound"})
        => (OwnWrite # Panic /\ OwnWrite.code \in {404, 406})

\* C28: the gateway serves only if the scheduler client was constructed:
\* whenever a request is with an api function or answered, s.backend holds
\* the client, and a gateway whose construction failed answers nothing
C28_StartupGate ==
    /\ gwPc \in {"received", "responded"} => gwBackend = "client"
    /\ gwBackend = "nil" => (gwResp = <<>> /\ gwCalls = <<>>)

\* an api function has called the scheduler client and answered
C28_Witness ==
    /\ gwPc = "responded"
    /\ gwBackend = "client"
    /\ gwCalls # <<>>
    /\ gwResp # <<>>

(***************************************************************************)
(* The strategies of the site registry.  strategy.go holds two             *)
(* declarations of package site, one after the other, that differ in       *)
(* PrepareForCreate and PrepareForUpdate; sCall.copy says which of the two *)
(* the build compiled.                                                     *)
(***************************************************************************)

\* api.Site with its Spec (the address) and its Status; the phase is a
\* SitePhase, or empty in a status the caller left unset
SiteObjects ==
    [Spec : [Url : {"u1", "u2"}],
     Status : [Phase : {"", "pending", "running", "offline", "terminated"},
               SiteAgentAddress : {"", "h"}]]

\* a PrepareForCreate that leaves the object as the caller supplied it
PrepareForCreateKeep(copy, site) == site

\* siteStrategy.PrepareForCreate
PrepareForCreate(copy, site) ==
    IF copy = 1
    THEN [site EXCEPT !.Status = [Phase |-> "pending", SiteAgentAddress |-> ""]]
    ELSE [site EXCEPT !.Status.Phase = "pending"]

\* siteStrategy.PrepareForUpdate
PrepareForUpdate(copy, site, old) ==
    IF copy = 1
    THEN [site EXCEPT !.Status = old.Status]
    ELSE [site EXCEPT !.Status = [old.Status EXCEPT !.Phase = "pending"]]

\* siteStatusStrategy.PrepareForCreate: declared by the first copy only; in
\* the second the method of the embedded siteStrategy is promoted
StatusPrepareForCreate(copy, site) ==
    IF copy = 1 THEN site ELSE PrepareForCreate(copy, site)

\* a status PrepareForUpdate that leaves the object as the caller supplied it
StatusPrepareForUpdateKeep(copy, site, old) == site

\* siteStatusStrategy.PrepareForUpdate
StatusPrepareForUpdate(copy, site, old) == [site EXCEPT !.Spec = old.Spec]

\* the store calls PrepareForCreate of the strategy on the caller's object
prepareForCreate ==
    /\ sPc = "start"
    /\ sCall.op = "create"
    /\ sObj' = IF sCall.strategy = "Strategy"
               THEN PrepareForCreate(sCall.copy, sObj)
               ELSE StatusPrepareForCreate(sCall.copy, sObj)
    /\ sPc' = "prepared"
    /\ UNCHANGED <<sCall, sOld, gwState, dState, rState, cState, aState>>

\* the store calls PrepareForUpdate of the strategy on the caller's object
\* and the stored one
prepareForUpdate ==
    /\ sPc = "start"
    /\ sCall.op = "update"
    /\ sObj' = IF sCall.strategy = "Strategy"
               THEN PrepareForUpdate(sCall.copy, sObj, sOld)
               ELSE StatusPrepareForUpdate(sCall.copy, sObj, sOld)
    /\ sPc' = "prepared"
    /\ UNCHANGED <<sCall, sOld, gwState, dState, rState, cState, aState>>

StrategyInit ==
    /\ Idle("strategy")
    /\ sPc = "start"
    /\ sCall \in [copy : {1, 2}, strategy : {"Strategy", "StatusStrategy"},
                  op : {"create", "update"}, obj : SiteObjects]
    /\ sObj = sCall.obj
    /\ sOld \in IF sCall.op = "create" THEN {<<>>} ELSE SiteObjects

StrategyNext ==
    \/ prepareForCreate
    \/ prepareForUpdate

StrategySpec == StrategyInit /\ [][StrategyNext]_vars

\* the strategy function op of the main strategy has run
Prepared(op) ==
    /\ sPc = "prepared"
    /\ sCall.strategy = "Strategy"
    /\ sCall.op = op

\* C29: whatever status phase the caller supplies, after PrepareForCreate of
\* the create strategy the status phase of the site is pending (and the
\* spec is the caller's)
C29_CreateForcesPending ==
    Prepared("create") =>
        (sObj.Status.Phase = "pending" /\ sObj.Spec = sCall.obj.Spec)

\* a site created with the phase running supplied by the caller
C29_Witness ==
    /\ Prepared("create")
    /\ sCall.obj.Status.Phase = "running"

\* C30: after PrepareForUpdate(new, old) of the main strategy new.Status
\* equals old.Status, for every old status, and new.Spec is the value the
\* caller supplied
C30_UpdateKeepsStatus ==
    Prepared("update") =>
        (sObj.Status = sOld.Status /\ sObj.Spec = sCall.obj.Spec)

\* PrepareForUpdate of the status strategy has run
StatusUpdated ==
    /\ sPc = "prepared"
    /\ sCall.strategy = "StatusStrategy"
    /\ sCall.op = "update"

\* C31: after PrepareForUpdate(new, old) of the status strategy new.Spec
\* equals old.Spec, and new.Status is the value the caller supplied
C31_StatusUpdateKeepsSpec ==
    StatusUpdated =>
        (sObj.Spec = sOld.Spec /\ sObj.Status = sCall.obj.Status)

\* a status update whose caller supplied another spec and another status
\* than the stored ones
C31_Witness ==
    /\ StatusUpdated
    /\ sCall.obj.Spec # sOld.Spec
    /\ sCall.obj.Status # sOld.Status

(***************************************************************************)
(* From the deployer through the sites client to the gateway               *)
(***************************************************************************)

\* the keys of the Param(..) calls with which the sites client builds the
\* proxy request of an operation
clientParams(op) ==
    CASE op = "UpdateApplication" ->
            {sconst.Sites, sconst.Projects, sconst.Applications}
      [] op = "ScaleApplication" ->
            {sconst.Sites, sconst.Projects, sconst.Applications,
             sconst.AttrReplicas}
      [] op = "CreateApplication" ->
            {sconst.Sites, sconst.Projects, sconst.Attributes}
      [] op = "GetApplication" ->
            {sconst.Sites, sconst.Projects, sconst.Applications}
      [] OTHER -> {sconst.Sites, sconst.Projects, sconst.Deployments}

\* r.URL.Query().Get(sconst.ParameterForce) as the gateway reads it from the
\* request the sites client built for the call c
paraForceOf(c) ==
    IF "force" \in clientParams(c.op)
    THEN (IF c.force THEN <<"true">> ELSE <<"false">>)
    ELSE <<>>

\* the update calls of the run
Updates == SelectSeq(dCalls, LAMBDA c : c.op = "UpdateApplication")

\* C32: the update call the gateway forwards to the scheduler carries the
\* force with which deploy ran: true for deploy(true) against an existing
\* application (the rollback of reconcile), false for deploy(false)
C32_ForceReachesScheduler ==
    \A i \in 1..Len(Updates) :
        /\ Updates[i].force = dForce[1]
        /\ forceOf(paraForceOf(Updates[i])) = dForce[1]

\* C34: in either poll phase an error of the get-deployment or the
\* get-application call does not end the wait: the loop sleeps one interval
\* and polls again, so a wait ends either on an answer without error or,
\* failing, past its deadline
C34_PollingToleratesErrors ==
    \A i \in 1..Len(dWaits) :
        LET w == dWaits[i]
        IN  /\ w.err \in {"nil", "timeout"}
            /\ w.err = "timeout" <=> w.end > w.start + w.timeout
            /\ w.err = "nil" =>
                  /\ w.last.kind # "error"
                  /\ w.end = w.start + pollSleep * (w.polls - 1)
            /\ (w.first = "error" /\ w.err = "nil") => w.polls >= 2

\* a wait of each phase whose first poll got an error and that ended well
\* on a later poll
C34_Witness ==
    /\ Len(dWaits) = 2
    /\ \A i \in 1..2 : /\ dWaits[i].first = "error"
                       /\ dWaits[i].err = "nil"
                       /\ dWaits[i].polls >= 2

\* C35: a SCALE that finds the actual instance count equal to the desired
\* count returns success directly after the initial fetch: GetApplication
\* is the only call of the run and no convergence wait is entered, even if
\* the application has a deployment in flight
C35_NoopScaleMakesNoCall ==
    (/\ dAction = "scale"
     /\ d.actualApp # <<>>
     /\ d.actualApp[1].Instances = <<d.desiredReplicas>>)
        => /\ dPc = "done"
           /\ dErr = "nil"
           /\ Len(dCalls) = 1
           /\ dCalls[1].op = "GetApplication"
           /\ dDeploy = <<>>
           /\ dWaits = <<>>

\* a no-op scale of an application with a deployment in flight and with
\* health checks
C35_Witness ==
    /\ dAction = "scale"
    /\ dPc = "done"
    /\ d.actualApp # <<>>
    /\ d.actualApp[1].Instances = <<d.desiredReplicas>>
    /\ d.actualApp[1].Deployments # <<>>
    /\ d.actualApp[1].HealthChecks # <<>>
    /\ Len(dCalls) = 1

\* the list getProjectDeploymentList answers with for the project of the
\* request, in the scheduler state this request has seen
ListedForProject == projectDeployments(gwDeployments, projIdPrefix(gwVars))

\* C36: for every project, deployment id and scheduler state, getDeployment
\* answers 200 exactly if the id is that of an element of the list that
\* getProjectDeploymentList returns for the project in the same state
C36_GetAndListAgree ==
    (gwPc = "responded" /\ Handler = "getDeployment" /\ LastRes = "ok") =>
        (OwnWrite.code = 200
            <=> \E i \in 1..Len(ListedForProject) :
                   ListedForProject[i].ID = gwVars[sconst.DeploymentId])

(***************************************************************************)
(* C37: when a path or query variable fails url.QueryUnescape, the         *)
(* gateway writes exactly one error response, and the api function of the  *)
(* route does not run: it writes nothing and calls no scheduler client.    *)
(***************************************************************************)

\* the request was served and one of its variables did not decode
DecodeFailed == /\ gwPc = "responded"
                /\ gwRoute # 0
                /\ BadVars(gwReq, TheRoute) # {}

C37_DecodeFailureStopsRequest ==
    DecodeFailed => (gwResp = <<httpError>> /\ gwCalls = <<>>)

(***************************************************************************)
(* C38: the scale handler passes to the scheduler exactly the integer      *)
(* named by the replicas value of the request; a replicas value that is    *)
(* not a valid integer produces an error response and no scheduler call.   *)
(***************************************************************************)

\* a scale request for the configured site was served
ScaleServed == /\ gwPc = "responded"
               /\ Handler = "putApplicationScale"
               /\ ~siteMismatch(gwVars)

\* the text is a decimal integer with an optional sign
NamesInteger(s) ==
    \/ IsDigits(s)
    \/ Len(s) >= 2 /\ Head(s) \in {"-", "+"} /\ IsDigits(Tail(s))

\* the integer the text names
IntegerNamed(s) == IF IsDigits(s) THEN DigitsVal(s)
                   ELSE IF Head(s) = "-" THEN 0 - DigitsVal(Tail(s))
                   ELSE DigitsVal(Tail(s))

C38_ScaleForwardsRequestedCount ==
    ScaleServed =>
        LET replicas == gwVars[sconst.AttrReplicas]
        IN  IF NamesInteger(replicas)
            THEN /\ Len(gwCalls) = 1
                 /\ gwCalls[1].op = "ScaleApplicationInstances"
                 /\ gwCalls[1].n = IntegerNamed(replicas)
            ELSE /\ gwCalls = <<>>
                 /\ OwnWrite.code # 200

(***************************************************************************)
(* pkg/client/sites.go: the proxy calls of the site client.  Each builds   *)
(* its request, runs Do() and hands the restclient.Result to handleApi     *)
(* with the value the body is to be decoded into.                          *)
(***************************************************************************)

\* what resVal points to in each proxy call: a struct, a slice, or nothing
\* (DeleteTasks passes nil)
resValOf ==
    [GetApplication |-> "object", GetProjectApplicationList |-> "array",
     GetApplicationList |-> "object", UpdateApplication |-> "object",
     ScaleApplication |-> "object", RestartApplication |-> "object",
     CreateApplication |-> "object", DeleteApplication |-> "object",
     GetDeployment |-> "object", GetDeploymentList |-> "array",
     DeleteDeployment |-> "object", GetProject |-> "object",
     GetProjectList |-> "object", DeleteProject |-> "object",
     GetTaskList |-> "object", DeleteTasks |-> "nil",
     GetVersion |-> "object", GetVersionList |-> "object"]

\* the Result of Do(): no error for an answer with a 2xx status, of which
\* the gateway writes only 200, with a JSON object, a JSON array or no body
\* at all; a StatusError for the other statuses the gateway writes, whose
\* Details are nil, hold no causes, or hold one; or an error that is no
\* StatusError (the connection failed)
Results ==
    [err : {"nil"}, code : {200}, body : {"object", "array", "empty"},
     details : {"nil"}]
    \cup [err : {"StatusError"}, code : {404, 500}, body : {"empty"},
          details : {"causes"}]
    \cup [err : {"StatusError"}, code : {406}, body : {"empty"},
          details : {"nil", "noCauses", "causes"}]
    \cup [err : {"other"}, code : {0}, body : {"empty"}, details : {"nil"}]

\* json.Unmarshal(body, resVal): an empty body is no JSON document, and an
\* object does not decode into a slice nor an array into a struct
Unmarshal(body, resVal) ==
    IF body = "empty" THEN [val |-> <<>>, err |-> "unexpected end of JSON input"]
    ELSE IF body # resVal THEN [val |-> <<>>, err |-> "cannot unmarshal"]
    ELSE [val |-> <<body>>, err |-> "nil"]

\* handleApi: the (result, error) pair; where it reads the causes of nil
\* Details it returns nothing, the goroutine panics (err "panic")
handleApi(call, resVal) ==
    IF call.err = "nil"
    THEN IF call.code = 200
         THEN IF resVal # "nil"
              THEN Unmarshal(call.body, resVal)
              ELSE [val |-> <<>>, err |-> "nil"]
         ELSE [val |-> <<>>, err |-> "nil"]
    ELSE IF call.err = "StatusError"
    THEN CASE call.code = 404 -> [val |-> <<>>, err |-> "nil"]
           [] call.code = 406 ->
                IF call.details = "nil" THEN [val |-> <<>>, err |-> "panic"]
                ELSE IF call.details = "causes"
                THEN [val |-> <<>>, err |-> "site agent return error"]
                ELSE [val |-> <<>>,
                      err |-> "site agent return not acceptable error"]
           [] OTHER -> [val |-> <<>>, err |-> "site agent return unexpected error"]
    ELSE [val |-> <<>>, err |-> "api server internal error"]

\* c.r.Verb()...Do(): the api server proxies the request to the gateway and
\* the answer comes back
Do ==
    /\ cPc = "called"
    /\ \E res \in Results : cCall' = [cCall EXCEPT !.res = <<res>>]
    /\ cPc' = "answered"
    /\ UNCHANGED <<cRet, gwState, dState, rState, sState, aState>>

\* ret, err := handleApi(call, result); result, _ = ret.(*T); return
proxyReturn ==
    /\ cPc = "answered"
    /\ LET ret == handleApi(cCall.res[1], resValOf[cCall.op])
       IN  IF ret.err = "panic"
           THEN cPc' = "panic" /\ cRet' = cRet
           ELSE cPc' = "returned" /\ cRet' = ret
    /\ UNCHANGED <<cCall, gwState, dState, rState, sState, aState>>

ClientInit ==
    /\ Idle("client")
    /\ cPc = "called"
    /\ cCall \in [op : DOMAIN resValOf, res : {<<>>}]
    /\ cRet = <<>>

ClientNext ==
    \/ Do
    \/ proxyReturn

ClientSpec == ClientInit /\ [][ClientNext]_vars

(***************************************************************************)
(* C33: for every proxy call of the site client a 404 answer yields a nil  *)
(* result with a nil error, a 200 answer yields the decoded body with a    *)
(* nil error, and a 406 or any other failure yields a non-nil error with   *)
(* a nil result; a nil result with a nil error is returned only when the   *)
(* resource is absent (the answer was 404).  DeleteTasks returns only the  *)
(* error, so only its error is constrained.                                *)
(***************************************************************************)

\* the proxy call has ended, by a return or by a panic
CallEnded == cPc \in {"returned", "panic"}

\* the answer the call got
Answered == cCall.res[1]

NoResult == [val |-> <<>>, err |-> "nil"]

C33_ClientResultMapping ==
    CallEnded =>
        /\ cPc = "returned"
        /\ CASE Answered.err = "StatusError" /\ Answered.code = 404 ->
                    cRet = NoResult
             [] Answered.err = "nil" /\ Answered.code = 200 ->
                    /\ cRet.err = "nil"
                    /\ resValOf[cCall.op] # "nil" => cRet.val # <<>>
             [] OTHER ->
                    /\ cRet.err # "nil"
                    /\ cRet.val = <<>>
        /\ (cRet = NoResult /\ resValOf[cCall.op] # "nil") =>
                (Answered.err = "StatusError" /\ Answered.code = 404)

(***************************************************************************)
(* ServeApi: one listener and one serving goroutine per address, and the   *)
(* loop that receives their reports from the channel chErrors.             *)
(***************************************************************************)

\* the largest number of addresses ServeApi is called with
MaxAddrs == 3

\* what each goroutine sends on chErrors: the closure names err after the
\* if statement whose own err held the result of s.Serve(), so the name is
\* the err of "srv, err := s.newServer(protoAddr)", which is nil whenever
\* the goroutine was started
sentOnChErrors(newServerErr, serveErr) == newServerErr

\* srv, err := s.newServer(protoAddr): on an error ServeApi returns it, else
\* it appends the server and starts the goroutine, which calls s.Serve()
startServer ==
    /\ aPc = "running"
    /\ Len(aServers) < Len(aProtoAddrs)
    /\ IF aProtoAddrs[Len(aServers) + 1] = "listen"
       THEN /\ aPc' = "returned"
            /\ aRet' = <<"listen">>
            /\ UNCHANGED aServers
       ELSE /\ aServers' = Append(aServers, [pc |-> "serving", err |-> "nil",
                                             served |-> <<>>])
            /\ UNCHANGED <<aPc, aRet>>
    /\ UNCHANGED <<aProtoAddrs, aChErrors, aReceived, gwState, dState, rState,
                   sState, cState>>

\* s.Serve() returns in goroutine i: the listener was closed, or it failed
\* otherwise; the goroutine goes on to send
serveReturns(i) ==
    /\ aServers[i].pc = "serving"
    /\ \E e \in {"use of closed network connection", "accept"} :
          aServers' = [aServers EXCEPT ![i].pc = "reporting",
                                       ![i].served = <<e>>]
    /\ UNCHANGED <<aPc, aProtoAddrs, aChErrors, aReceived, aRet, gwState,
                   dState, rState, sState, cState>>

\* chErrors <- err in goroutine i: possible while the buffer has room
report(i) ==
    /\ aServers[i].pc = "reporting"
    /\ Len(aChErrors) < Len(aProtoAddrs)
    /\ aChErrors' = Append(aChErrors,
                           sentOnChErrors(aServers[i].err,
                                          aServers[i].served[1]))
    /\ aServers' = [aServers EXCEPT ![i].pc = "done"]
    /\ UNCHANGED <<aPc, aProtoAddrs, aReceived, aRet, gwState, dState, rState,
                   sState, cState>>

\* err := <-chErrors in the receive loop: an error ends ServeApi
receive ==
    /\ aPc = "running"
    /\ Len(aServers) = Len(aProtoAddrs)
    /\ aReceived < Len(aProtoAddrs)
    /\ aChErrors # <<>>
    /\ aChErrors' = Tail(aChErrors)
    /\ aReceived' = aReceived + 1
    /\ IF Head(aChErrors) # "nil"
       THEN aPc' = "returned" /\ aRet' = <<Head(aChErrors)>>
       ELSE UNCHANGED <<aPc, aRet>>
    /\ UNCHANGED <<aProtoAddrs, aServers, gwState, dState, rState, sState,
                   cState>>

\* the receive loop has run len(protoAddrs) times: return nil
returnNil ==
    /\ aPc = "running"
    /\ Len(aServers) = Len(aProtoAddrs)
    /\ aReceived = Len(aProtoAddrs)
    /\ aPc' = "returned"
    /\ aRet' = <<"nil">>
    /\ UNCHANGED <<aProtoAddrs, aServers, aChErrors, aReceived, gwState,
                   dState, rState, sState, cState>>

\* ServeApi is called with up to MaxAddrs addresses, on each of which
\* net.Listen will succeed or fail
ServeInit ==
    /\ Idle("serve")
    /\ aPc = "running"
    /\ aProtoAddrs \in UNION {[1..n -> {"ok", "listen"}] : n \in 0..MaxAddrs}
    /\ aServers = <<>>
    /\ aChErrors = <<>>
    /\ aReceived = 0
    /\ aRet = <<>>

ServeNext ==
    \/ startServer
    \/ \E i \in 1..Len(aServers) : serveReturns(i)
    \/ \E i \in 1..Len(aServers) : report(i)
    \/ receive
    \/ returnNil

ServeSpec == ServeInit /\ [][ServeNext]_vars

(***************************************************************************)
(* C39: ServeApi starts one serving goroutine per address and returns nil  *)
(* only after every one of them has stopped; if the Serve of any listener  *)
(* returns an error other than a closed-network-connection error, ServeApi *)
(* returns that error, so it returns nil only if no Serve failed so; and   *)
(* no serving goroutine ever blocks on reporting its result.               *)
(***************************************************************************)

\* ServeApi returned nil
ReturnedNil == aPc = "returned" /\ aRet = <<"nil">>

\* every address has its goroutine, and every goroutine has reported
AllStopped ==
    /\ Len(aServers) = Len(aProtoAddrs)
    /\ \A i \in 1..Len(aServers) : aServers[i].pc = "done"

\* the Serve of some listener returned an error that is not the closing of
\* its connection
SomeServeFailed ==
    \E i \in 1..Len(aServers) : aServers[i].served = <<"accept">>

\* a goroutine is at its send and the buffer of chErrors is full
ReportBlocks ==
    \E i \in 1..Len(aServers) :
        aServers[i].pc = "reporting" /\ Len(aChErrors) >= Len(aProtoAddrs)

C39_ServeApiErrorPropagation ==
    /\ ReturnedNil => AllStopped
    /\ ReturnedNil => ~SomeServeFailed
    /\ ~ReportBlocks

====
